---- MODULE Spec2Model ----
(***************************************************************************)
(* Model of RuntimeTypeCheck (src/script/RuntimeTypeCheck.ts, the class    *)
(* that starts at line 859 together with the Cond catalogue above it).     *)
(*                                                                         *)
(* The state is the condition graph of a program (conds: the Condition     *)
(* objects, shared by reference and named here by their identity), the     *)
(* conditions and values its call sites use (site), the sort of the engine *)
(* it runs on (engine), the objects of the program (heap), the record of   *)
(* the last top-level call (last) and the number of calls made (calls).    *)
(* Every public static method is one action; the recursive methods are     *)
(* RECURSIVE operators that return, next to the method's result, the trace *)
(* of the steps they made.  The methods are given twice: on values, where  *)
(* a condition is its name and a list is a sequence, and on the heap,      *)
(* where a method gets and writes objects by reference.                    *)
(***************************************************************************)
EXTENDS Integers, Sequences, FiniteSets, TLC

VARIABLES conds, site, engine, heap, last, calls

vars == <<conds, site, engine, heap, last, calls>>

(***************************************************************************)
(* Bounds                                                                  *)
(***************************************************************************)
\* the size of the largest descriptor a call site writes: one for every
\* alternative plus one for every condition inside an AND-group's array
MaxSize == 4
\* the conditions of an AND-group, and the alternatives of a descriptor,
\* the calls that follow one another are handed
GroupSize == 2
\* the calls of one program are counted up to this number
MaxCalls == 2
\* the number of nested calls of assert the stack of the engine holds
StackLimit == 4
\* the largest number of before items and of after items of a fragment
\* handed to compilePartialMessage
MaxBefore == 2
MaxAfter == 3

(***************************************************************************)
(* JavaScript values                                                       *)
(***************************************************************************)
\* a number is kept in tenths, so that 3.2 is 32
Num(n10) == [typeof |-> "number", isArray |-> FALSE, isNaN |-> FALSE,
             isNull |-> FALSE, n10 |-> n10, str |-> ""]
Str(s) == [typeof |-> "string", isArray |-> FALSE, isNaN |-> FALSE,
           isNull |-> FALSE, n10 |-> 0, str |-> s]
Bool(b) == [typeof |-> "boolean", isArray |-> FALSE, isNaN |-> FALSE,
            isNull |-> FALSE, n10 |-> IF b THEN 10 ELSE 0, str |-> ""]
Null == [typeof |-> "object", isArray |-> FALSE, isNaN |-> FALSE,
         isNull |-> TRUE, n10 |-> 0, str |-> ""]
\* the array [], the one array of the model
EmptyArray == [typeof |-> "object", isArray |-> TRUE, isNaN |-> FALSE,
               isNull |-> FALSE, n10 |-> 0, str |-> ""]

getType(value) ==
  IF value.isArray THEN "array"
  ELSE IF value.isNaN THEN "NaN"
  ELSE IF value.isNull THEN "null"
  ELSE value.typeof

\* value.length > 0, as Cond.nonempty reads it: the length of a string, 0
\* for the array [], undefined (and so not greater than 0) for a number
\* and a boolean.  Reading the length of null or undefined throws a
\* TypeError: HasLength has no value there, and neither has a call that
\* gets that far.
HasLength(value) ==
  CASE value.typeof = "string" -> Len(value.str) > 0
    [] value.isArray -> FALSE
    [] value.typeof \in {"number", "boolean"} -> FALSE

getArticle(value) ==
  IF Len(value) > 0 /\ SubSeq(value, 1, 1) \in
       {"a", "e", "i", "o", "u", "A", "E", "I", "O", "U"}
  THEN "an" ELSE "a"

\* A string of the program is a sequence of UTF-16 code units.  The texts
\* of this module are strings of ASCII characters: Upper has the characters
\* of the code units 32 to 95 in their order, Lower those of 97 to 126 (a
\* string of the module cannot hold the character of 96), Controls the
\* white space below them (the third is the character of code unit 11).
Upper ==
  " !\"#$%&'()*+,-./0123456789:;<=>?@"
  \o "ABCDEFGHIJKLMNOPQRSTUVWXYZ[\\]^_"

Lower == "abcdefghijklmnopqrstuvwxyz{|}~"

Controls ==
  ("\t" :> 9) @@ ("\n" :> 10) @@ ("" :> 11) @@ ("\f" :> 12) @@ ("\r" :> 13)

\* the characters of text, each with its code unit: first for the first one
Run(text, first) ==
  [ch \in {SubSeq(text, i, i) : i \in 1..Len(text)} |->
     first - 1 + CHOOSE i \in 1..Len(text) : SubSeq(text, i, i) = ch]

\* the code unit of a character
CodeUnitOf == Run(Upper, 32) @@ Run(Lower, 97) @@ Controls

\* the character of a code unit
CharacterOf ==
  [unit \in {CodeUnitOf[ch] : ch \in DOMAIN CodeUnitOf} |->
     CHOOSE ch \in DOMAIN CodeUnitOf : CodeUnitOf[ch] = unit]

\* String.prototype.charCodeAt, with the positions counted from 1
charCodeAt(str, i) == CodeUnitOf[SubSeq(str, i, i)]

\* the code units of a text
CodeUnits(str) == [i \in 1..Len(str) |-> charCodeAt(str, i)]

\* String.fromCharCode
RECURSIVE fromCharCode(_)
fromCharCode(units) ==
  IF Len(units) = 0 THEN ""
  ELSE CharacterOf[Head(units)] \o fromCharCode(Tail(units))

\* WhiteSpace and LineTerminator of the language, by code unit: U+0009 to
\* U+000D, U+0020, U+00A0, U+1680, U+2000 to U+200A, U+2028, U+2029,
\* U+202F, U+205F, U+3000 and U+FEFF
WhiteSpace ==
  (9..13) \cup {32, 160, 5760} \cup (8192..8202)
  \cup {8232, 8233, 8239, 8287, 12288, 65279}

\* String.prototype.trim, of a sequence of code units
RECURSIVE trim(_)
trim(units) ==
  IF Len(units) = 0 THEN units
  ELSE IF Head(units) \in WhiteSpace THEN trim(Tail(units))
  ELSE IF units[Len(units)] \in WhiteSpace
  THEN trim(SubSeq(units, 1, Len(units) - 1))
  ELSE units

\* trim of a text, fromCharCode(trim(CodeUnits(str))): the code units are
\* read at the two ends only
RECURSIVE trimText(_)
trimText(str) ==
  IF Len(str) = 0 THEN str
  ELSE IF charCodeAt(str, 1) \in WhiteSpace THEN trimText(SubSeq(str, 2, Len(str)))
  ELSE IF charCodeAt(str, Len(str)) \in WhiteSpace
  THEN trimText(SubSeq(str, 1, Len(str) - 1))
  ELSE str

\* String.prototype.startsWith
startsWith(str, prefix) ==
  Len(str) >= Len(prefix) /\ SubSeq(str, 1, Len(prefix)) = prefix

\* the value of a digit, 16 for a character that is none
DigitValue(ch) ==
  CASE ch = "0" -> 0 [] ch = "1" -> 1 [] ch = "2" -> 2 [] ch = "3" -> 3
    [] ch = "4" -> 4 [] ch = "5" -> 5 [] ch = "6" -> 6 [] ch = "7" -> 7
    [] ch = "8" -> 8 [] ch = "9" -> 9
    [] ch \in {"a", "A"} -> 10 [] ch \in {"b", "B"} -> 11
    [] ch \in {"c", "C"} -> 12 [] ch \in {"d", "D"} -> 13
    [] ch \in {"e", "E"} -> 14 [] ch \in {"f", "F"} -> 15
    [] OTHER -> 16

\* str is made of digits of the base, none included
AllDigits(str, base) ==
  \A i \in 1..Len(str) : DigitValue(SubSeq(str, i, i)) < base

RECURSIVE DigitsValue(_, _)
DigitsValue(str, base) ==
  IF Len(str) = 0 THEN 0
  ELSE DigitsValue(SubSeq(str, 1, Len(str) - 1), base) * base
         + DigitValue(SubSeq(str, Len(str), Len(str)))

RECURSIVE Pow10(_)
Pow10(k) == IF k = 0 THEN 1 ELSE 10 * Pow10(k - 1)

\* the index of the first character of str that is in chars, 0 when none is
IndexOf(str, chars) ==
  IF \A i \in 1..Len(str) : SubSeq(str, i, i) \notin chars THEN 0
  ELSE CHOOSE i \in 1..Len(str) :
         /\ SubSeq(str, i, i) \in chars
         /\ \A k \in 1..(i - 1) : SubSeq(str, k, k) \notin chars

\* StringToNumber of the language (StringNumericLiteral): white space is
\* stripped, the empty string is 0, then a binary, octal or hexadecimal
\* integer (0b, 0o, 0x, no sign), or a decimal with an optional sign, an
\* optional fraction and an optional exponent; every other string is NaN.
\* The numbers of the model are the multiples of 0.1: StringToNumber has
\* no value for a string that denotes another number (a finer fraction,
\* Infinity).
NotANumber == [nan |-> TRUE, n10 |-> 0]

\* sign * digits * 10^scale tenths
Tenths(sign, digits, scale) ==
  CASE digits = 0 -> [nan |-> FALSE, n10 |-> 0]
    [] digits # 0 /\ scale >= 0 -> [nan |-> FALSE, n10 |-> sign * digits * Pow10(scale)]
    [] digits # 0 /\ scale < 0 /\ digits % Pow10(-scale) = 0 ->
         [nan |-> FALSE, n10 |-> sign * (digits \div Pow10(-scale))]

\* the digits before and after the point, and the exponent when there is one
DecimalToNumber(sign, whole, fraction, hasExponent, exponentSign, exponentDigits) ==
  IF /\ Len(whole) + Len(fraction) > 0
     /\ AllDigits(whole, 10)
     /\ AllDigits(fraction, 10)
     /\ hasExponent => (Len(exponentDigits) > 0 /\ AllDigits(exponentDigits, 10))
  THEN Tenths(sign, DigitsValue(whole \o fraction, 10),
              exponentSign * DigitsValue(exponentDigits, 10) - Len(fraction) + 1)
  ELSE NotANumber

\* the sign of the exponent
ExponentToNumber(sign, whole, fraction, hasExponent, exponent) ==
  IF Len(exponent) > 0 /\ SubSeq(exponent, 1, 1) \in {"+", "-"}
  THEN DecimalToNumber(sign, whole, fraction, hasExponent,
                       IF SubSeq(exponent, 1, 1) = "-" THEN -1 ELSE 1,
                       SubSeq(exponent, 2, Len(exponent)))
  ELSE DecimalToNumber(sign, whole, fraction, hasExponent, 1, exponent)

\* the mantissa at its point (dot, 0 when it has none)
MantissaToNumber(sign, mantissa, dot, hasExponent, exponent) ==
  IF dot = 0
  THEN ExponentToNumber(sign, mantissa, "", hasExponent, exponent)
  ELSE ExponentToNumber(sign, SubSeq(mantissa, 1, dot - 1),
                        SubSeq(mantissa, dot + 1, Len(mantissa)), hasExponent, exponent)

\* the literal at its exponent mark (e, 0 when it has none)
LiteralToNumber(sign, body, e) ==
  IF e = 0
  THEN MantissaToNumber(sign, body, IndexOf(body, {"."}), FALSE, "")
  ELSE MantissaToNumber(sign, SubSeq(body, 1, e - 1),
                        IndexOf(SubSeq(body, 1, e - 1), {"."}),
                        TRUE, SubSeq(body, e + 1, Len(body)))

\* a decimal literal after its sign
SignedToNumber(sign, body) ==
  CASE body # "Infinity" -> LiteralToNumber(sign, body, IndexOf(body, {"e", "E"}))

\* 0b, 0o, 0x: the base of the integer that follows, 0 when none is written
RadixOf(s) ==
  IF Len(s) < 2 THEN 0
  ELSE CASE SubSeq(s, 1, 2) \in {"0b", "0B"} -> 2
         [] SubSeq(s, 1, 2) \in {"0o", "0O"} -> 8
         [] SubSeq(s, 1, 2) \in {"0x", "0X"} -> 16
         [] OTHER -> 0

RadixToNumber(digits, radix) ==
  IF Len(digits) > 0 /\ AllDigits(digits, radix)
  THEN [nan |-> FALSE, n10 |-> 10 * DigitsValue(digits, radix)]
  ELSE NotANumber

TrimmedToNumber(s) ==
  IF s = "" THEN [nan |-> FALSE, n10 |-> 0]
  ELSE IF RadixOf(s) # 0 THEN RadixToNumber(SubSeq(s, 3, Len(s)), RadixOf(s))
  ELSE IF SubSeq(s, 1, 1) = "-" THEN SignedToNumber(-1, SubSeq(s, 2, Len(s)))
  ELSE IF SubSeq(s, 1, 1) = "+" THEN SignedToNumber(1, SubSeq(s, 2, Len(s)))
  ELSE SignedToNumber(1, s)

StringToNumber(str) == TrimmedToNumber(trimText(str))

\* ToNumber of the language: what the arithmetic and relational operators
\* of a predicate see when the value is not a number
ToNumber(value) ==
  IF value.typeof = "number" THEN [nan |-> value.isNaN, n10 |-> value.n10]
  ELSE IF value.typeof = "boolean" THEN [nan |-> FALSE, n10 |-> value.n10]
  ELSE IF value.isNull THEN [nan |-> FALSE, n10 |-> 0]
  ELSE IF value.typeof = "string" THEN StringToNumber(value.str)
  ELSE IF value.isArray THEN [nan |-> FALSE, n10 |-> 0]
  ELSE [nan |-> TRUE, n10 |-> 0]

(***************************************************************************)
(* Conditions, condition lists, descriptors                                *)
(***************************************************************************)
None == [defined |-> FALSE, str |-> ""]
Some(s) == [defined |-> TRUE, str |-> s]
Truthy(o) == o.defined /\ o.str # ""

Message(before, type, after) == [before |-> before, type |-> type, after |-> after]

\* a ConditionList is a Condition or an array of Conditions
One(c) == [isArray |-> FALSE, cond |-> c]
All(list) == [isArray |-> TRUE, list |-> list]

\* the optional field conditions
NoConditions == [defined |-> FALSE, descriptor |-> <<>>]
Conditions(descriptor) == [defined |-> TRUE, descriptor |-> descriptor]

IsString(s) == [isFunction |-> FALSE, body |-> s]
IsFunction(body) == [isFunction |-> TRUE, body |-> body]

Condition(conditions, predicate, shouldBe, is) ==
  [conditions |-> conditions, assert |-> predicate, shouldBe |-> shouldBe, is |-> is]

conditionTypeof(type) ==
  Condition(NoConditions, [fn |-> "typeof", arg |-> type],
            Message(None, Some(type), None), IsFunction("type"))

\* the catalogue Cond, by identity
Cond ==
  [ number |-> conditionTypeof("number"),
    string |-> conditionTypeof("string"),
    boolean |-> conditionTypeof("boolean"),
    true |-> Condition(Conditions(<<One("boolean")>>), [fn |-> "true", arg |-> ""],
                       Message(None, Some("true"), None), IsString("false")),
    integer |-> Condition(Conditions(<<One("number")>>), [fn |-> "integer", arg |-> ""],
                          Message(None, Some("integer"), None),
                          IsString("a floating point number")),
    positive |-> Condition(Conditions(<<One("number")>>), [fn |-> "positive", arg |-> ""],
                           Message(Some("positive"), None, None),
                           IsString("a negative number or 0")),
    \* what a call site gets from Cond.array()
    typeofArray |-> conditionTypeof("array"),
    array |-> Condition(Conditions(<<One("typeofArray")>>), [fn |-> "ok", arg |-> ""],
                        Message(None, Some("array"), None), IsFunction("type")),
    \* what Cond.nonempty got from its own this.array()
    innerTypeofArray |-> conditionTypeof("array"),
    innerArray |-> Condition(Conditions(<<One("innerTypeofArray")>>),
                             [fn |-> "ok", arg |-> ""],
                             Message(None, Some("array"), None), IsFunction("type")),
    nonempty |-> Condition(Conditions(<<One("innerArray"), One("string")>>),
                           [fn |-> "nonempty", arg |-> ""],
                           Message(Some("non-empty"), None, None),
                           IsFunction("article empty type")) ]

\* the conditions of the README's custom example, divisibleBy(5) and
\* greaterThan(25)
Custom ==
  [ divisibleBy5 |-> Condition(Conditions(<<One("number")>>),
                               [fn |-> "divisibleBy", arg |-> "5"],
                               Message(None, None, Some("that is divisible by 5")),
                               IsString("a number not divisible by 5")),
    greaterThan25 |-> Condition(Conditions(<<One("number")>>),
                                [fn |-> "greaterThan", arg |-> "25"],
                                Message(None, None, Some("that is greater than 25")),
                                IsString("a number less than or equal to 25")) ]

\* conditions made like the ok and nok of the assertFind tests, with and
\* without the field conditions, and with messages added
Fixtures ==
  [ pass |-> Condition(NoConditions, [fn |-> "ok", arg |-> ""],
                       Message(Some("passing"), None, None), IsString("a pass")),
    fail |-> Condition(NoConditions, [fn |-> "nok", arg |-> ""],
                       Message(None, Some("fail"), None), IsString("a fail")),
    ok |-> Condition(Conditions(<<>>), [fn |-> "ok", arg |-> ""],
                     Message(None, None, Some("that is ok")), IsString("an ok")),
    nok |-> Condition(Conditions(<<>>), [fn |-> "nok", arg |-> ""],
                      Message(None, None, Some("that is not ok")), IsString("a nok")),
    \* ok and nok without the conditions field
    okBare |-> Condition(NoConditions, [fn |-> "ok", arg |-> ""],
                         Message(None, None, Some("that is ok")), IsString("an ok")),
    nokBare |-> Condition(NoConditions, [fn |-> "nok", arg |-> ""],
                          Message(None, None, Some("that is not ok")), IsString("a nok")),
    okGated |-> Condition(Conditions(<<One("fail")>>), [fn |-> "ok", arg |-> ""],
                          Message(Some("gated"), None, None), IsString("a gated ok")),
    nokOpen |-> Condition(Conditions(<<One("pass")>>), [fn |-> "nok", arg |-> ""],
                          Message(None, Some("open"), None), IsString("an open nok")),
    okEither |-> Condition(Conditions(<<One("fail"), All(<<"pass", "pass">>)>>),
                           [fn |-> "ok", arg |-> ""],
                           Message(Some("either"), None, None), IsFunction("type")),
    vacuous |-> Condition(Conditions(<<All(<<>>)>>), [fn |-> "nok", arg |-> ""],
                          Message(None, None, Some("of no length")),
                          IsFunction("article empty type")) ]

\* conditions that list themselves as their prerequisite: directly
\* (selfish) and through one another (ping, pong)
Cyclic ==
  [ selfish |-> Condition(Conditions(<<One("selfish")>>), [fn |-> "nok", arg |-> ""],
                          Message(None, Some("selfish"), None), IsString("a selfish")),
    ping |-> Condition(Conditions(<<One("pong")>>), [fn |-> "ok", arg |-> ""],
                       Message(Some("ping"), None, None), IsString("a ping")),
    pong |-> Condition(Conditions(<<One("ping")>>), [fn |-> "nok", arg |-> ""],
                       Message(None, Some("pong"), None), IsString("a pong")) ]

\* Cond.nonempty with the two alternatives of its conditions exchanged
Reshaped ==
  [ nonemptyReversed |-> Condition(Conditions(<<One("string"), One("innerArray")>>),
                                   [fn |-> "nonempty", arg |-> ""],
                                   Message(Some("non-empty"), None, None),
                                   IsFunction("article empty type")) ]

\* every condition, by identity
Universe == Cond @@ Custom @@ Fixtures @@ Cyclic @@ Reshaped

\* the catalogue Cond of the later revision of the class (lines 1419-1550),
\* by identity: every condition has prerequisites of its own, made by
\* #conditionTypeof where the condition is written
LaterCond ==
  [ number |-> conditionTypeof("number"),
    string |-> conditionTypeof("string"),
    boolean |-> conditionTypeof("boolean"),
    trueTypeof |-> conditionTypeof("boolean"),
    true |-> Condition(Conditions(<<One("trueTypeof")>>), [fn |-> "true", arg |-> ""],
                       Message(None, Some("true"), None), IsString("false")),
    integerTypeof |-> conditionTypeof("number"),
    integer |-> Condition(Conditions(<<One("integerTypeof")>>),
                          [fn |-> "integer", arg |-> ""],
                          Message(None, Some("integer"), None),
                          IsString("a floating point number")),
    positiveTypeof |-> conditionTypeof("number"),
    positive |-> Condition(Conditions(<<One("positiveTypeof")>>),
                           [fn |-> "positive", arg |-> ""],
                           Message(Some("positive"), None, None),
                           IsString("a negative number or 0")),
    \* what a call site gets from Cond.array()
    typeofArray |-> conditionTypeof("array"),
    array |-> Condition(Conditions(<<One("typeofArray")>>), [fn |-> "ok", arg |-> ""],
                        Message(None, Some("array"), None), IsFunction("type")),
    nonemptyTypeofArray |-> conditionTypeof("array"),
    nonemptyTypeofString |-> conditionTypeof("string"),
    nonempty |-> Condition(Conditions(<<One("nonemptyTypeofArray"),
                                        One("nonemptyTypeofString")>>),
                           [fn |-> "nonempty", arg |-> ""],
                           Message(Some("non-empty"), None, None),
                           IsFunction("article empty type")) ]

\* every condition of a program of the later revision, by identity: its
\* catalogue and the conditions the program makes itself
LaterUniverse == LaterCond @@ Custom @@ Fixtures

\* the own predicate of a condition, cond.assert(val)
Predicate(cond, val) ==
  LET p == cond.assert
      n == ToNumber(val)
  IN CASE p.fn = "typeof" -> getType(val) = p.arg
       [] p.fn = "true" -> val.typeof = "boolean" /\ val.n10 = 10
       [] p.fn = "integer" -> ~n.nan /\ n.n10 % 10 = 0
       [] p.fn = "positive" -> ~n.nan /\ n.n10 > 0
       [] p.fn = "divisibleBy" -> ~n.nan /\ n.n10 % 50 = 0
       [] p.fn = "greaterThan" -> ~n.nan /\ n.n10 > 250
       [] p.fn = "nonempty" -> HasLength(val)
       [] p.fn = "ok" -> TRUE
       [] p.fn = "nok" -> FALSE

\* the programs: the conditions a program builds (a set closed under the
\* conditions field), and the conditions and values its call sites use
Programs ==
  { [graph |-> {"string", "number", "positive", "integer"},
     roots |-> {"string", "positive", "integer"},
     values |-> {Num(-30), Num(32), Str("foo")}],
    [graph |-> {"string", "number", "boolean", "true"},
     roots |-> {"string", "true", "number"},
     values |-> {Num(32), Bool(TRUE), Str("foo")}],
    [graph |-> {"number", "positive", "divisibleBy5", "greaterThan25"},
     roots |-> {"positive", "divisibleBy5", "greaterThan25"},
     values |-> {Num(300), Num(250), Num(260), Num(-60), Str("30")}],
    [graph |-> {"string", "typeofArray", "array", "innerTypeofArray", "innerArray",
                "nonempty", "nonemptyReversed"},
     roots |-> {"string", "nonempty", "array"},
     values |-> {Str(""), Str("foo"), EmptyArray}],
    [graph |-> {"pass", "fail", "ok", "nok", "okBare", "nokBare"},
     roots |-> {"pass", "fail", "ok"},
     values |-> {Num(0)}],
    [graph |-> {"pass", "fail", "ok", "nok", "okBare", "nokBare"},
     roots |-> {"pass", "nok", "fail"},
     values |-> {Num(0)}],
    [graph |-> {"pass", "fail", "okGated", "nokOpen"},
     roots |-> {"pass", "okGated", "nokOpen"},
     values |-> {Num(0)}],
    [graph |-> {"pass", "fail", "okGated", "okEither"},
     roots |-> {"fail", "okGated", "okEither"},
     values |-> {Num(0)}],
    [graph |-> {"pass", "fail", "nokOpen", "okEither", "vacuous"},
     roots |-> {"nokOpen", "okEither", "vacuous"},
     values |-> {Num(0)}] }

\* the programs of the later revision: the conditions of its catalogue keep
\* their prerequisites to themselves, the conditions a program makes share
\* them (divisibleBy5 and greaterThan25 share Cond.number, okGated and
\* okEither share fail)
LaterPrograms ==
  { [graph |-> {"string", "positive", "positiveTypeof", "integer", "integerTypeof"},
     roots |-> {"string", "positive", "integer"},
     values |-> {Num(-30), Num(32), Str("foo"), Str("5")}],
    [graph |-> {"number", "positive", "positiveTypeof", "divisibleBy5", "greaterThan25"},
     roots |-> {"positive", "divisibleBy5", "greaterThan25"},
     values |-> {Num(300), Num(260), Num(-60), Str("30")}],
    [graph |-> {"string", "typeofArray", "array", "nonemptyTypeofArray",
                "nonemptyTypeofString", "nonempty"},
     roots |-> {"string", "nonempty", "array"},
     values |-> {Str(""), Str("foo"), EmptyArray}],
    [graph |-> {"pass", "fail", "okGated", "okEither"},
     roots |-> {"fail", "okGated", "okEither"},
     values |-> {Num(0)}],
    [graph |-> {"pass", "fail", "nokOpen", "okEither", "vacuous"},
     roots |-> {"nokOpen", "okEither", "vacuous"},
     values |-> {Num(0)}] }

\* the programs whose graph has a cycle
CyclicPrograms ==
  { [graph |-> {"selfish", "pass", "fail", "okGated"},
     roots |-> {"selfish", "pass", "okGated"},
     values |-> {Num(0)}],
    [graph |-> {"ping", "pong", "fail", "okGated"},
     roots |-> {"ping", "pong", "okGated"},
     values |-> {Num(0)}] }

\* the condition lists a call site can write with the conditions in its
\* hands, by size: a condition or the empty array (1), an array of
\* size - 1 conditions
ConditionListsOfSize(roots, size) ==
  IF size = 1 THEN { One(c) : c \in roots } \cup { All(<<>>) }
  ELSE { All(list) : list \in [1..(size - 1) -> roots] }

\* the descriptors of a call site, up to a size
DescriptorsUpTo(roots, max) ==
  LET OfSize[size \in 0..max] ==
        IF size = 0 THEN { <<>> }
        ELSE UNION { { <<condList>> \o rest :
                         condList \in ConditionListsOfSize(roots, first),
                         rest \in OfSize[size - first] } : first \in 1..size }
  IN UNION { OfSize[size] : size \in 0..max }

Descriptors(roots) == DescriptorsUpTo(roots, MaxSize)

\* the descriptors of the calls that follow one another: the empty one,
\* those of one condition list of size 1, and for every choice of
\* GroupSize different conditions the AND-group and the alternatives
RepeatDescriptors(roots) ==
  { <<>> }
    \cup { <<condList>> : condList \in ConditionListsOfSize(roots, 1) }
    \cup UNION { { <<All(list)>>, [i \in 1..GroupSize |-> One(list[i])] } :
                 list \in { l \in [1..GroupSize -> roots] :
                              \A i, j \in 1..GroupSize : l[i] = l[j] => i = j } }

resolveConditionList(condList) ==
  IF condList.isArray THEN condList.list ELSE <<condList.cond>>

(***************************************************************************)
(* assert (lines 890-902).  The result is the returned boolean together    *)
(* with the trace of the call: "group" when the callback of some() starts  *)
(* on an alternative, "pre" when the prerequisites of a condition are      *)
(* handed to the recursive call, "own" when cond.assert(val) is invoked;   *)
(* every event carries the value that was passed and the nesting depth.    *)
(* The search below adds "result" (the failing condition one condition of  *)
(* a group ends with) and "alternative" (firstFail and the total count an  *)
(* alternative ends with).                                                 *)
(***************************************************************************)
Event(ev, cond, depth, val) ==
  [ev |-> ev, cond |-> cond, depth |-> depth, val |-> val, fail |-> None, count |-> 0]

Outcome(ev, cond, depth, val, fail, count) ==
  [ev |-> ev, cond |-> cond, depth |-> depth, val |-> val, fail |-> fail, count |-> count]

RECURSIVE assert(_, _, _)
RECURSIVE assertSome(_, _, _, _)
RECURSIVE assertPrerequisites(_, _, _, _)
RECURSIVE assertEvery(_, _, _, _)

\* a faulty variant: every predicate of the group is invoked, whatever the ones
\* before it returned
assertEveryNoStop(val, condList, i, depth) ==
  IF i > Len(condList) THEN [res |-> TRUE, trace |-> <<>>, overflow |-> FALSE]
  ELSE LET Continued(rest) ==
             [res |-> Predicate(conds[condList[i]], val) /\ rest.res,
              trace |-> <<Event("own", condList[i], depth, val)>> \o rest.trace,
              overflow |-> FALSE]
       IN Continued(assertEvery(val, condList, i + 1, depth))

\* condList.every(cond => cond.assert(val)), from index i on
assertEvery(val, condList, i, depth) ==
  IF i > Len(condList) THEN [res |-> TRUE, trace |-> <<>>, overflow |-> FALSE]
  ELSE LET own == <<Event("own", condList[i], depth, val)>>
       IN IF ~Predicate(conds[condList[i]], val)
          THEN [res |-> FALSE, trace |-> own, overflow |-> FALSE]
          ELSE LET Continued(rest) ==
                     [res |-> rest.res, trace |-> own \o rest.trace,
                      overflow |-> FALSE]
               IN Continued(assertEvery(val, condList, i + 1, depth))

\* a faulty variant: the prerequisites are not looked at
assertPrerequisitesUnchecked(val, condList, i, depth) ==
  [res |-> TRUE, trace |-> <<>>, overflow |-> FALSE]

\* the for loop over condList, from index i on: res is FALSE when the loop
\* returned from the callback
assertPrerequisites(val, condList, i, depth) ==
  IF i > Len(condList) THEN [res |-> TRUE, trace |-> <<>>, overflow |-> FALSE]
  ELSE IF conds[condList[i]].conditions.defined
  THEN \* line 895: r is what the recursive call returned
       LET Checked(r) ==
             IF ~r.res
             THEN [res |-> FALSE,
                   trace |-> <<Event("pre", condList[i], depth, val)>> \o r.trace,
                   overflow |-> r.overflow]
             ELSE LET Continued(rest) ==
                        [res |-> rest.res,
                         trace |-> <<Event("pre", condList[i], depth, val)>>
                                     \o r.trace \o rest.trace,
                         overflow |-> rest.overflow]
                  IN Continued(assertPrerequisites(val, condList, i + 1, depth))
       IN Checked(assert(val, conds[condList[i]].conditions.descriptor, depth + 1))
  ELSE assertPrerequisites(val, condList, i + 1, depth)

\* a faulty variant: every condition is asked for its prerequisites and at once for
\* its own predicate, one condition after the other
RECURSIVE assertInterleaved(_, _, _, _)
assertInterleaved(val, condList, i, depth) ==
  IF i > Len(condList) THEN [res |-> TRUE, trace |-> <<>>, overflow |-> FALSE]
  ELSE LET pre == assertPrerequisites(val, <<condList[i]>>, 1, depth)
           own == assertEvery(val, <<condList[i]>>, 1, depth)
           rest == assertInterleaved(val, condList, i + 1, depth)
       IN IF ~pre.res
          THEN [res |-> FALSE, trace |-> pre.trace, overflow |-> pre.overflow]
          ELSE IF ~own.res
          THEN [res |-> FALSE, trace |-> pre.trace \o own.trace, overflow |-> FALSE]
          ELSE [res |-> rest.res, trace |-> pre.trace \o own.trace \o rest.trace,
                overflow |-> rest.overflow]

assertCondListInterleaved(val, alternative, depth) ==
  LET r == assertInterleaved(val, resolveConditionList(alternative), 1, depth)
  IN [res |-> r.res, trace |-> <<Event("group", "", depth, val)>> \o r.trace,
      overflow |-> r.overflow]

\* the callback of descriptor.some on one alternative
assertCondList(val, alternative, depth) ==
  LET condList == resolveConditionList(alternative)
      start == <<Event("group", "", depth, val)>>
      \* pre is what the for loop left, own what every returned
      AfterLoop(pre) ==
        IF ~pre.res
        THEN [res |-> FALSE, trace |-> start \o pre.trace, overflow |-> pre.overflow]
        ELSE LET AfterEvery(own) ==
                   [res |-> own.res, trace |-> start \o pre.trace \o own.trace,
                    overflow |-> FALSE]
             IN AfterEvery(assertEvery(val, condList, 1, depth))
  IN AfterLoop(assertPrerequisites(val, condList, 1, depth))

\* a faulty variant: every alternative has to hold (every in the place of some)
assertSomeEvery(val, descriptor, i, depth) ==
  IF i > Len(descriptor) THEN [res |-> TRUE, trace |-> <<>>, overflow |-> FALSE]
  ELSE LET r == assertCondList(val, descriptor[i], depth)
       IN IF ~r.res THEN r
          ELSE LET rest == assertSome(val, descriptor, i + 1, depth)
               IN [res |-> rest.res, trace |-> r.trace \o rest.trace,
                   overflow |-> rest.overflow]

\* a faulty variant: only the first alternative is looked at
assertSomeFirstOnly(val, descriptor, i, depth) ==
  IF i > Len(descriptor) THEN [res |-> FALSE, trace |-> <<>>, overflow |-> FALSE]
  ELSE assertCondList(val, descriptor[i], depth)

\* descriptor.some(...), from index i on
assertSome(val, descriptor, i, depth) ==
  IF i > Len(descriptor) THEN [res |-> FALSE, trace |-> <<>>, overflow |-> FALSE]
  ELSE LET \* r is what the callback returned on alternative i
           AfterCallback(r) ==
             IF r.res \/ r.overflow THEN r
             ELSE LET Continued(rest) ==
                        [res |-> rest.res, trace |-> r.trace \o rest.trace,
                         overflow |-> rest.overflow]
                  IN Continued(assertSome(val, descriptor, i + 1, depth))
       IN AfterCallback(assertCondList(val, descriptor[i], depth))

\* assert (lines 890-902).  A call nested deeper than the stack of the
\* engine holds ends the top-level call with a RangeError (overflow); no
\* record with overflow carries a result.
assert(val, descriptor, depth) ==
  IF depth > StackLimit
  THEN [res |-> FALSE, trace |-> <<>>, overflow |-> TRUE]
  ELSE assertSome(val, descriptor, 1, depth)

(***************************************************************************)
(* #getMostRelevantFailingCondition (lines 949-998).  The result is the    *)
(* FailingData {count, failing}, the list ignoreConditions as the call     *)
(* leaves it (the list is pushed to in place, so every level sees the      *)
(* pushes of the levels below), and the trace of own-predicate calls.      *)
(***************************************************************************)
\* -Infinity of the language: absorbs every finite addend
NegInfinity == -1000000
Plus(a, b) == IF a = NegInfinity THEN NegInfinity ELSE a + b

\* ignoreConditions.includes(cond)
Includes(list, cond) == \E k \in 1..Len(list) : list[k] = cond

RECURSIVE getMostRelevant(_, _, _, _)
RECURSIVE relevantAlternatives(_, _, _, _, _)
RECURSIVE relevantConditions(_, _, _, _, _)

\* a faulty variant: a later failure of the group replaces the first one
afterPrerequisitesLastFail(val, name, acc, depth, deep, sub) ==
  LET count == IF deep THEN Plus(sub.count, -1) ELSE 0
      invoked == ~sub.failing.defined
      passes == Predicate(conds[name], val)
      failing == IF invoked /\ ~passes THEN Some(name) ELSE sub.failing
  IN [firstFail |-> IF failing.defined THEN failing ELSE acc.firstFail,
      maxCount |-> IF count > acc.maxCount THEN count ELSE acc.maxCount,
      levelCount |-> IF invoked /\ passes THEN acc.levelCount + 10
                     ELSE acc.levelCount,
      ignore |-> sub.ignore,
      trace |-> acc.trace \o sub.trace \o
                (IF invoked THEN <<Event("own", name, depth, val)>> ELSE <<>>) \o
                <<Outcome("result", name, depth, val, failing, count)>>]

\* a faulty variant: the own predicate is consulted for a condition without
\* prerequisites only
afterPrerequisitesLeafOnly(val, name, acc, depth, deep, sub) ==
  LET count == IF deep THEN Plus(sub.count, -1) ELSE 0
      invoked == ~deep
      passes == Predicate(conds[name], val)
      failing == IF invoked /\ ~passes THEN Some(name) ELSE sub.failing
  IN [firstFail |-> IF acc.firstFail.defined THEN acc.firstFail ELSE failing,
      maxCount |-> IF count > acc.maxCount THEN count ELSE acc.maxCount,
      levelCount |-> IF invoked /\ passes THEN acc.levelCount + 10
                     ELSE acc.levelCount,
      ignore |-> sub.ignore,
      trace |-> acc.trace \o sub.trace \o
                (IF invoked THEN <<Event("own", name, depth, val)>> ELSE <<>>) \o
                <<Outcome("result", name, depth, val, failing, count)>>]

\* a faulty variant: a condition whose predicate is invoked is blamed, whatever the
\* predicate returned
afterPrerequisitesBlameInvoked(val, name, acc, depth, deep, sub) ==
  LET count == IF deep THEN Plus(sub.count, -1) ELSE 0
      invoked == ~sub.failing.defined
      passes == Predicate(conds[name], val)
      failing == IF invoked THEN Some(name) ELSE sub.failing
  IN [firstFail |-> IF acc.firstFail.defined THEN acc.firstFail ELSE failing,
      maxCount |-> IF count > acc.maxCount THEN count ELSE acc.maxCount,
      levelCount |-> IF invoked /\ passes THEN acc.levelCount + 10
                     ELSE acc.levelCount,
      ignore |-> sub.ignore,
      trace |-> acc.trace \o sub.trace \o
                (IF invoked THEN <<Event("own", name, depth, val)>> ELSE <<>>) \o
                <<Outcome("result", name, depth, val, failing, count)>>]

\* lines 977-989: what a condition adds to firstFail, maxCount and
\* levelCount, given the result (sub) of the search of its prerequisites;
\* deep tells whether that search was made
afterPrerequisites(val, name, acc, depth, deep, sub) ==
  LET count == IF deep THEN Plus(sub.count, -1) ELSE 0
      invoked == ~sub.failing.defined
      passes == Predicate(conds[name], val)
      failing == IF invoked /\ ~passes THEN Some(name) ELSE sub.failing
  IN [firstFail |-> IF acc.firstFail.defined THEN acc.firstFail ELSE failing,
      maxCount |-> IF count > acc.maxCount THEN count ELSE acc.maxCount,
      levelCount |-> IF invoked /\ passes THEN acc.levelCount + 10
                     ELSE acc.levelCount,
      ignore |-> sub.ignore,
      trace |-> acc.trace \o sub.trace \o
                (IF invoked THEN <<Event("own", name, depth, val)>> ELSE <<>>) \o
                <<Outcome("result", name, depth, val, failing, count)>>]

\* lines 968-975: the condition is pushed to ignoreConditions and, when it
\* has a conditions array that is not empty, its prerequisites are searched
visitCondition(val, name, acc, depth) ==
  LET pushed == Append(acc.ignore, name)
      cond == conds[name]
      deep == cond.conditions.defined /\ Len(cond.conditions.descriptor) > 0
  IN afterPrerequisites(val, name, acc, depth, deep,
       IF deep
       THEN getMostRelevant(val, cond.conditions.descriptor, pushed, depth + 1)
       ELSE [count |-> 0, failing |-> None, ignore |-> pushed, trace |-> <<>>])

\* a faulty variant: a condition without prerequisites is visited again when it is
\* met again
relevantConditionsLeavesAgain(val, condList, i, acc, depth) ==
  IF i > Len(condList) THEN acc
  ELSE IF /\ Includes(acc.ignore, condList[i])
          /\ conds[condList[i]].conditions.defined
          /\ Len(conds[condList[i]].conditions.descriptor) > 0
  THEN relevantConditions(val, condList, i + 1, acc, depth)
  ELSE relevantConditions(val, condList, i + 1,
                          visitCondition(val, condList[i], acc, depth), depth)

\* the inner for loop, from index i on; acc carries firstFail, maxCount,
\* levelCount, ignore and trace
relevantConditions(val, condList, i, acc, depth) ==
  IF i > Len(condList) THEN acc
  ELSE IF Includes(acc.ignore, condList[i])
  THEN relevantConditions(val, condList, i + 1, acc, depth)
  ELSE relevantConditions(val, condList, i + 1,
                          visitCondition(val, condList[i], acc, depth), depth)

\* lines 992-995: max after an alternative, given what the inner loop left
afterConditions(val, acc, depth, level) ==
  LET total == Plus(level.maxCount, level.levelCount)
      better == total > acc.count
  IN [count |-> IF better THEN total ELSE acc.count,
      failing |-> IF better THEN level.firstFail ELSE acc.failing,
      ignore |-> level.ignore,
      trace |-> Append(level.trace,
                  Outcome("alternative", "", depth, val, level.firstFail, total))]

\* the outer for loop, from index i on; acc carries max (count, failing),
\* ignore and trace
relevantAlternatives(val, descriptor, i, acc, depth) ==
  IF i > Len(descriptor) THEN acc
  ELSE relevantAlternatives(val, descriptor, i + 1,
         afterConditions(val, acc, depth,
           relevantConditions(val, resolveConditionList(descriptor[i]), 1,
             [firstFail |-> None, maxCount |-> NegInfinity, levelCount |-> 0,
              ignore |-> acc.ignore, trace |-> acc.trace], depth)),
         depth)

getMostRelevant(val, descriptor, ignoreConditions, depth) ==
  relevantAlternatives(val, descriptor, 1,
    [count |-> NegInfinity, failing |-> None,
     ignore |-> ignoreConditions, trace |-> <<>>], depth)

\* the default value of the parameter ignoreConditions, made anew by every
\* call that leaves the parameter out
DefaultIgnoreConditions == <<>>

\* getMostRelevantFailingCondition (lines 946-948)
getMostRelevantFailingCondition(val, descriptor) ==
  getMostRelevant(val, descriptor, DefaultIgnoreConditions, 0)

\* what assertFind returns and did, given the result (a) of assert and the
\* result (found) of the search
assertFindOf(a, found) ==
  IF a.res \/ a.overflow
  THEN [failing |-> None, trace |-> a.trace, search |-> <<>>,
        start |-> <<>>, visited |-> <<>>, overflow |-> a.overflow]
  ELSE [failing |-> found.failing, trace |-> a.trace, search |-> found.trace,
        start |-> DefaultIgnoreConditions, visited |-> found.ignore,
        overflow |-> FALSE]

\* assertFind (lines 927-930)
assertFind(val, descriptor) ==
  assertFindOf(assert(val, descriptor, 0),
               getMostRelevantFailingCondition(val, descriptor))

\* condition.is, called with the IsData of the value when it is a function
\* a faulty variant: the article is always "a"
CallIsFixedArticle(cond, val) ==
  LET type == getType(val)
  IN IF cond.is.isFunction
     THEN CASE cond.is.body = "type" -> type
            [] cond.is.body = "article empty type" -> "a empty " \o type
     ELSE cond.is.body

CallIs(cond, val) ==
  LET type == getType(val)
      article == getArticle(type)
  IN IF cond.is.isFunction
     THEN CASE cond.is.body = "type" -> type
            [] cond.is.body = "article empty type" -> article \o " empty " \o type
     ELSE cond.is.body

\* what getMessageIs returns and did, given the result of assertFind
getMessageIsOf(val, found) ==
  [text |-> IF found.failing.defined
            THEN CallIs(conds[found.failing.str], val) ELSE "",
   trace |-> found.trace, search |-> found.search,
   start |-> found.start, visited |-> found.visited, overflow |-> found.overflow]

\* getMessageIs (lines 1032-1046)
getMessageIs(val, descriptor) == getMessageIsOf(val, assertFind(val, descriptor))

(***************************************************************************)
(* getDescriptorPassCount (lines 1617-1635, the later revision of the      *)
(* class in the same file).  acc carries count and ignoreConditions.       *)
(***************************************************************************)
RECURSIVE passCountAlternatives(_, _, _, _)
RECURSIVE passCountConditions(_, _, _, _)

\* line 1630: count += cond.assert(val) ? 1 : 0, after the conditions of the
\* condition were counted (sub)
passCountOwn(val, name, sub) ==
  [count |-> sub.count + (IF Predicate(conds[name], val) THEN 1 ELSE 0),
   ignore |-> sub.ignore]

\* lines 1626-1630: the condition is pushed, its conditions field, when
\* present, is counted, then its own predicate
passCountVisit(val, name, acc) ==
  passCountOwn(val, name,
    IF conds[name].conditions.defined
    THEN passCountAlternatives(val, conds[name].conditions.descriptor, 1,
           [count |-> acc.count, ignore |-> Append(acc.ignore, name)])
    ELSE [count |-> acc.count, ignore |-> Append(acc.ignore, name)])

\* a faulty variant: a condition met again has its own predicate counted again
passCountConditionsEveryMention(val, condList, i, acc) ==
  IF i > Len(condList) THEN acc
  ELSE IF Includes(acc.ignore, condList[i])
  THEN passCountConditions(val, condList, i + 1,
         [count |-> acc.count + (IF Predicate(conds[condList[i]], val) THEN 1 ELSE 0),
          ignore |-> acc.ignore])
  ELSE passCountConditions(val, condList, i + 1, passCountVisit(val, condList[i], acc))

\* for (const cond of condList), from index i on
passCountConditions(val, condList, i, acc) ==
  IF i > Len(condList) THEN acc
  ELSE IF Includes(acc.ignore, condList[i])
  THEN passCountConditions(val, condList, i + 1, acc)
  ELSE passCountConditions(val, condList, i + 1, passCountVisit(val, condList[i], acc))

\* for (let condList of descriptor), from index i on
passCountAlternatives(val, descriptor, i, acc) ==
  IF i > Len(descriptor) THEN acc
  ELSE passCountAlternatives(val, descriptor, i + 1,
         passCountConditions(val, resolveConditionList(descriptor[i]), 1, acc))

\* #getDescriptorPassCountHelper (lines 1620-1635)
getDescriptorPassCountHelper(val, descriptor, ignoreConditions) ==
  passCountAlternatives(val, descriptor, 1, [count |-> 0, ignore |-> ignoreConditions])

\* getDescriptorPassCount (lines 1617-1619)
getDescriptorPassCount(val, descriptor) ==
  getDescriptorPassCountHelper(val, descriptor, <<>>).count

(***************************************************************************)
(* "Expected" message handling (lines 1058-1210)                           *)
(***************************************************************************)
\* makePartial (lines 1188-1194)
makePartial(message) ==
  [before |-> IF Truthy(message.before) THEN <<message.before.str>> ELSE <<>>,
   type |-> message.type,
   after |-> IF Truthy(message.after) THEN <<message.after.str>> ELSE <<>>]

\* a faulty variant: the items of the source are put in front
mergeMessagesPrepend(target, source) ==
  [before |-> source.before \o target.before,
   type |-> IF ~Truthy(target.type) THEN source.type ELSE target.type,
   after |-> source.after \o target.after]

\* mergeMessages (lines 1196-1200): the target as the call leaves it
mergeMessages(target, source) ==
  [before |-> target.before \o source.before,
   type |-> IF ~Truthy(target.type) THEN source.type ELSE target.type,
   after |-> target.after \o source.after]

\* arrayIsEqual (lines 1207-1209)
arrayIsEqual(val1, val2) ==
  Len(val1) = Len(val2) /\ \A i \in 1..Len(val1) : val2[i] = val1[i]

\* messageIsEqual (lines 1202-1206)
messageIsEqual(part1, part2) ==
  /\ arrayIsEqual(part1.before, part2.before)
  /\ arrayIsEqual(part1.after, part2.after)
  /\ part1.type = part2.type

\* a faulty variant: nothing is filtered
filterDuplicatesNone(messageList) == messageList

\* a faulty variant: an entry stays when no earlier entry equals it
filterDuplicatesKeepFirst(messageList) ==
  LET keep == { i \in 1..Len(messageList) :
                  \A j \in 1..(i - 1) :
                    ~messageIsEqual(messageList[i], messageList[j]) }
      F[i \in 0..Len(messageList)] ==
        IF i = 0 THEN <<>>
        ELSE IF i \in keep THEN Append(F[i - 1], messageList[i]) ELSE F[i - 1]
  IN F[Len(messageList)]

\* messageList.filter(...) (lines 1178-1185): an entry stays when no later
\* entry equals it
filterDuplicates(messageList) ==
  LET keep == { i \in 1..Len(messageList) :
                  \A j \in (i + 1)..Len(messageList) :
                    ~messageIsEqual(messageList[i], messageList[j]) }
      F[i \in 0..Len(messageList)] ==
        IF i = 0 THEN <<>>
        ELSE IF i \in keep THEN Append(F[i - 1], messageList[i]) ELSE F[i - 1]
  IN F[Len(messageList)]

RECURSIVE mergeDescriptorMessagesHelper(_)

\* a faulty variant: the accumulated message is pushed after the deep ones too
mergeCondListWithBare(alternative) ==
  LET condList == resolveConditionList(alternative)
      n == Len(condList)
      \* lines 1144-1151
      Own[i \in 1..n] ==
        IF i = 1 THEN makePartial(conds[condList[1]].shouldBe)
        ELSE mergeMessages(Own[i - 1], makePartial(conds[condList[i]].shouldBe))
      \* lines 1153-1155
      results == [i \in 1..n |-> mergeDescriptorMessagesHelper(conds[condList[i]].conditions)]
      \* lines 1157-1161
      Single[i \in 0..n] ==
        IF i = 0 THEN Own[n]
        ELSE IF Len(results[i]) = 1 THEN mergeMessages(Single[i - 1], results[i][1])
        ELSE Single[i - 1]
      currentMessage == Single[n]
      \* lines 1162-1170
      Deep[i \in 0..n] ==
        IF i = 0 THEN <<>>
        ELSE IF Len(results[i]) > 1
        THEN Deep[i - 1] \o [k \in 1..Len(results[i]) |->
                               mergeMessages(results[i][k], currentMessage)]
        ELSE Deep[i - 1]
      hasDeepMessage == \E i \in 1..n : Len(results[i]) > 1
  IN IF n = 0 THEN <<>>
     ELSE IF hasDeepMessage THEN Append(Deep[n], currentMessage)
     ELSE <<currentMessage>>

\* the body of the for loop over the descriptor (lines 1141-1174): the
\* messages one alternative pushes to messageList
mergeCondList(alternative) ==
  LET condList == resolveConditionList(alternative)
      n == Len(condList)
      \* lines 1144-1151
      Own[i \in 1..n] ==
        IF i = 1 THEN makePartial(conds[condList[1]].shouldBe)
        ELSE mergeMessages(Own[i - 1], makePartial(conds[condList[i]].shouldBe))
      \* lines 1153-1155
      results == [i \in 1..n |-> mergeDescriptorMessagesHelper(conds[condList[i]].conditions)]
      \* lines 1157-1161
      Single[i \in 0..n] ==
        IF i = 0 THEN Own[n]
        ELSE IF Len(results[i]) = 1 THEN mergeMessages(Single[i - 1], results[i][1])
        ELSE Single[i - 1]
      currentMessage == Single[n]
      \* lines 1162-1170
      Deep[i \in 0..n] ==
        IF i = 0 THEN <<>>
        ELSE IF Len(results[i]) > 1
        THEN Deep[i - 1] \o [k \in 1..Len(results[i]) |->
                               mergeMessages(results[i][k], currentMessage)]
        ELSE Deep[i - 1]
      hasDeepMessage == \E i \in 1..n : Len(results[i]) > 1
  IN IF n = 0 THEN <<>>
     ELSE IF hasDeepMessage THEN Deep[n]
     ELSE <<currentMessage>>

\* messageList when the for loop over the descriptor has ended (line 1175)
messageListOf(descriptor) ==
  LET M[i \in 0..Len(descriptor)] ==
        IF i = 0 THEN <<>> ELSE M[i - 1] \o mergeCondList(descriptor[i])
  IN M[Len(descriptor)]

\* #mergeDescriptorMessagesHelper (lines 1129-1185); the argument is the
\* optional field conditions, or the descriptor of the top-level call
mergeDescriptorMessagesHelper(conditions) ==
  IF ~conditions.defined
  THEN <<[before |-> <<>>, type |-> None, after |-> <<>>]>>
  ELSE filterDuplicates(messageListOf(conditions.descriptor))

\* mergeDescriptorMessages (lines 1126-1128)
mergeDescriptorMessages(descriptor) ==
  mergeDescriptorMessagesHelper(Conditions(descriptor))

\* replace of a found prefix, Array join
replacePrefix(str, prefix, by) == by \o SubSeq(str, Len(prefix) + 1, Len(str))

join(list, separator) ==
  LET J[i \in 0..Len(list)] ==
        IF i = 0 THEN ""
        ELSE IF i = 1 THEN list[1]
        ELSE J[i - 1] \o separator \o list[i]
  IN J[Len(list)]

\* the comparator of line 1100: it reads its first argument only
compareThat(a, b) == IF startsWith(a, "that") THEN 1 ELSE -1

\* Array.prototype.sort with this comparator.  The comparator is not a
\* consistent one, so the order is left to the engine: the insertion sort
\* of one engine (comparator called with the earlier element first) and
\* the run detection plus binary insertion of the other (comparator called
\* with the later element first), both for arrays below the merge limit.
insertionSort(array) ==
  LET n == Len(array)
      S[i \in 1..n] ==
        IF i = 1 THEN <<array[1]>>
        ELSE LET prev == S[i - 1]
                 item == array[i]
                 \* the elements of prev, from the right, that move one up
                 stay == { j \in 1..(i - 1) : compareThat(prev[j], item) <= 0 }
                 pos == IF stay = {} THEN 0
                        ELSE CHOOSE j \in stay : \A k \in stay : k <= j
             IN SubSeq(prev, 1, pos) \o <<item>> \o SubSeq(prev, pos + 1, i - 1)
  IN IF n < 2 THEN array ELSE S[n]

reverse(array) == [i \in 1..Len(array) |-> array[Len(array) + 1 - i]]

RECURSIVE binarySearch(_, _, _, _)
\* the place (0-based) binary insertion finds for pivot in array[left..right)
binarySearch(array, pivot, left, right) ==
  IF left >= right THEN left
  ELSE LET mid == left + ((right - left) \div 2)
       IN IF compareThat(pivot, array[mid + 1]) < 0
          THEN binarySearch(array, pivot, left, mid)
          ELSE binarySearch(array, pivot, mid + 1, right)

timSort(array) ==
  LET n == Len(array)
      isDescending == compareThat(array[2], array[1]) < 0
      \* the run goes on while element k keeps the direction of the run
      goesOn(k) == IF isDescending THEN compareThat(array[k], array[k - 1]) < 0
                   ELSE compareThat(array[k], array[k - 1]) >= 0
      runLength == IF \A k \in 3..n : goesOn(k) THEN n
                   ELSE (CHOOSE k \in 3..n : ~goesOn(k) /\ \A m \in 3..(k - 1) : goesOn(m)) - 1
      run == IF isDescending
             THEN reverse(SubSeq(array, 1, runLength)) \o SubSeq(array, runLength + 1, n)
             ELSE array
      B[i \in runLength..n] ==
        IF i = runLength THEN run
        ELSE LET prev == B[i - 1]
                 pivot == prev[i]
                 left == binarySearch(prev, pivot, 0, i - 1)
             IN SubSeq(prev, 1, left) \o <<pivot>> \o SubSeq(prev, left + 1, i - 1)
                  \o SubSeq(prev, i + 1, n)
  IN IF n < 2 THEN array ELSE B[n]

sort(array) == IF engine = "insertion" THEN insertionSort(array) ELSE timSort(array)

\* compilePartialMessage (lines 1085-1114)
compilePartialMessage(messagePartial) ==
  LET before == [i \in 1..Len(messagePartial.before) |-> trimText(messagePartial.before[i])]
      sorted == sort([i \in 1..Len(messagePartial.after) |-> trimText(messagePartial.after[i])])
      \* hadFirstThat before item i is mapped
      hadFirstThat(i) == \E k \in 1..(i - 1) : startsWith(sorted[k], "that")
      after == [i \in 1..Len(sorted) |->
                  IF startsWith(sorted[i], "that") /\ hadFirstThat(i)
                  THEN replacePrefix(sorted[i], "that", "and")
                  ELSE sorted[i]]
  IN (IF Len(before) > 0 THEN join(before, ", ") \o " " ELSE "")
     \o (IF messagePartial.type.defined THEN messagePartial.type.str ELSE "<unknown>")
     \o (IF Len(after) > 0 THEN " " \o join(after, " ") ELSE "")

\* getMessageExpected (lines 1058-1064)
getMessageExpected(descriptor) ==
  LET messageList == mergeDescriptorMessages(descriptor)
  IN join([i \in 1..Len(messageList) |-> compilePartialMessage(messageList[i])], " OR ")

\* a faulty variant: the message ends with a period
TypeCheckErrorPeriod(expected, is) ==
  [message |-> "Expected " \o expected \o ", got " \o is \o ".",
   expected |-> expected, is |-> is]

\* TypeCheckError (lines 847-857)
TypeCheckError(expected, is) ==
  [message |-> "Expected " \o expected \o ", got " \o is,
   expected |-> expected, is |-> is]

\* what assertAndThrow returns, throws and did, given the result (a) of
\* assert and the results of getMessageExpected and getMessageIs.  When
\* assert used up the stack its RangeError leaves assertAndThrow as it
\* is: no TypeCheckError is made and neither message is asked for.
assertAndThrowOf(a, expected, is) ==
  IF a.overflow
  THEN [threw |-> FALSE, res |-> FALSE, error |-> TypeCheckError("", ""),
        trace |-> a.trace, search |-> <<>>, start |-> <<>>, visited |-> <<>>,
        overflow |-> TRUE]
  ELSE IF ~a.res
  THEN [threw |-> TRUE, res |-> FALSE, error |-> TypeCheckError(expected, is.text),
        trace |-> a.trace \o is.trace, search |-> is.search,
        start |-> is.start, visited |-> is.visited, overflow |-> FALSE]
  ELSE [threw |-> FALSE, res |-> TRUE, error |-> TypeCheckError("", ""),
        trace |-> a.trace, search |-> <<>>, start |-> <<>>, visited |-> <<>>,
        overflow |-> FALSE]

\* assertAndThrow (lines 872-880)
assertAndThrow(val, descriptor) ==
  assertAndThrowOf(assert(val, descriptor, 0), getMessageExpected(descriptor),
                   getMessageIs(val, descriptor))

(***************************************************************************)
(* The objects of a program.  A run of the program keeps its objects in a  *)
(* heap: an object is named by its address (its place in the heap, 0 for   *)
(* undefined), a field that holds an object holds its address, and an      *)
(* assignment or a push writes to the object at the address it is given.   *)
(* The operators below are the methods of the class once more, with the    *)
(* heap handed through them: each returns the heap as it leaves it, so     *)
(* that what a call wrote, and to which object, is there to be read after  *)
(* the call.  The programs they run on have no cycle.  What an operator    *)
(* gets back from a call is named as the member of a set of one,           *)
(* Only({ ... r ... : r \in {call} }): r is what the call returned, heap   *)
(* and result, and the set holds what the operator makes of it.            *)
(***************************************************************************)
\* undefined, where an object is expected
NoObject == 0

\* The objects, by kind: the class RuntimeTypeCheck ("class": fields holds
\* the objects its static fields hold, apart from the catalogue Cond of
\* line 860; the class declares no such field), a Condition ("condition":
\* conditions is NoObject when the field is absent), a Message
\* ("message"), a MessagePartial ("partial"), a FailingData ("failing"),
\* an array of objects ("array") and an array of strings ("strings").

\* a new object, put at the end of the heap
alloc(h, object) == [heap |-> Append(h, object), ref |-> Len(h) + 1]

\* array.push(item)
push(h, array, item) == [h EXCEPT ![array].items = Append(@, item)]

\* ...array: the rest parameter of a call is a new array with the items of
\* the array that is spread into it
spread(h, array) == alloc(h, [kind |-> "array", items |-> h[array].items])

\* the address of the Condition with a name
AddressOf(h, name) ==
  CHOOSE a \in 1..Len(h) : h[a].kind = "condition" /\ h[a].name = name

\* the member of a set of one
Only(S) == CHOOSE x \in S : TRUE

\* the arguments of a call, or the literal of a conditions field: every
\* array in it is made (the AND-groups from index i on, lists holding what
\* is made so far, then the array of the condition lists), the conditions
\* are those of the heap
RECURSIVE allocDescriptor(_, _, _, _)
allocDescriptor(h, descriptor, i, lists) ==
  IF i > Len(descriptor) THEN alloc(h, [kind |-> "array", items |-> lists])
  ELSE IF descriptor[i].isArray
  THEN Only({ allocDescriptor(group.heap, descriptor, i + 1,
                              Append(lists, group.ref)) :
              group \in {alloc(h, [kind |-> "array",
                                   items |-> [k \in 1..Len(descriptor[i].list) |->
                                                AddressOf(h, descriptor[i].list[k])]])} })
  ELSE allocDescriptor(h, descriptor, i + 1,
                       Append(lists, AddressOf(h, descriptor[i].cond)))

\* the names of a set, one after the other
RECURSIVE Listed(_)
Listed(names) ==
  IF names = {} THEN <<>>
  ELSE LET name == CHOOSE n \in names : TRUE
       IN <<name>> \o Listed(names \ {name})

\* the conditions fields of the conditions from index k on are written
RECURSIVE BuiltConditions(_, _, _, _)
BuiltConditions(h, graph, names, k) ==
  IF k > Len(names) THEN h
  ELSE IF graph[names[k]].conditions.defined
  THEN Only({ BuiltConditions([d.heap EXCEPT ![1 + k].conditions = d.ref],
                              graph, names, k + 1) :
              d \in {allocDescriptor(h, graph[names[k]].conditions.descriptor, 1, <<>>)} })
  ELSE BuiltConditions(h, graph, names, k + 1)

\* the heap when the conditions of a program (graph) are built: the class,
\* the conditions, their shouldBe, and the arrays of their conditions
Built(graph) ==
  Only({ BuiltConditions(
           <<[kind |-> "class", fields |-> <<>>]>>
             \o [k \in 1..Len(names) |->
                   [kind |-> "condition", name |-> names[k], conditions |-> NoObject,
                    assert |-> graph[names[k]].assert,
                    shouldBe |-> 1 + Len(names) + k, is |-> graph[names[k]].is]]
             \o [k \in 1..Len(names) |->
                   [kind |-> "message", before |-> graph[names[k]].shouldBe.before,
                    type |-> graph[names[k]].shouldBe.type,
                    after |-> graph[names[k]].shouldBe.after]],
           graph, names, 1) :
         names \in {Listed(DOMAIN graph)} })

\* a MessagePartial as it is read from the heap
ReadPartial(h, partial) ==
  [before |-> h[h[partial].before].items, type |-> h[partial].type,
   after |-> h[h[partial].after].items]

\* The heap after a call that found the objects up to size: what the call
\* made is gone with the call, unless an object that was there before
\* refers to one of them now.
Kept(h, size) ==
  LET Refs(object) ==
        CASE object.kind = "class" -> { object.fields[k] : k \in 1..Len(object.fields) }
          [] object.kind = "array" -> { object.items[k] : k \in 1..Len(object.items) }
          [] object.kind = "condition" -> {object.conditions, object.shouldBe}
          [] object.kind \in {"message", "strings", "partial", "failing"} -> {}
  IN IF \A a \in 1..size : Refs(h[a]) \subseteq 0..size
     THEN SubSeq(h, 1, size)
     ELSE h

\* a faulty variant: the resolved list is written back to the array it was read from
resolvedAtWritten(h, descriptor, i) ==
  IF h[h[descriptor].items[i]].kind = "array"
  THEN [heap |-> h, ref |-> h[descriptor].items[i]]
  ELSE Only({ [heap |-> [list.heap EXCEPT ![descriptor].items[i] = list.ref],
               ref |-> list.ref] :
              list \in {alloc(h, [kind |-> "array", items |-> <<h[descriptor].items[i]>>])} })

\* condList = this.#resolveConditionList(condList), for the condList at
\* index i of a descriptor (lines 891-892, 958-959, 1141-1142 with
\* 1261-1263): an array is returned as it is, a Condition in a new array
resolvedAt(h, descriptor, i) ==
  IF h[h[descriptor].items[i]].kind = "array"
  THEN [heap |-> h, ref |-> h[descriptor].items[i]]
  ELSE alloc(h, [kind |-> "array", items |-> <<h[descriptor].items[i]>>])

\* assert (lines 890-902) on the heap
RECURSIVE assertIn(_, _, _)
RECURSIVE assertSomeIn(_, _, _, _)
RECURSIVE assertPrerequisitesIn(_, _, _, _)

\* the for loop over condList (lines 893-899), from index k on: rest is
\* the rest parameter of the call of line 895, r what the call returned
assertPrerequisitesIn(h, val, condList, k) ==
  IF k > Len(h[condList].items) THEN [heap |-> h, res |-> TRUE]
  ELSE IF h[h[condList].items[k]].conditions # NoObject
  THEN Only({ IF ~r.res THEN r
              ELSE assertPrerequisitesIn(r.heap, val, condList, k + 1) :
              r \in { assertIn(rest.heap, val, rest.ref) :
                      rest \in {spread(h, h[h[condList].items[k]].conditions)} } })
  ELSE assertPrerequisitesIn(h, val, condList, k + 1)

\* the callback of descriptor.some on the condList at index i (lines
\* 892-900): list is the resolved condList, pre what the for loop returned
assertCondListIn(h, val, descriptor, i) ==
  Only({ Only({ IF ~pre.res THEN pre
                ELSE [heap |-> pre.heap,
                      res |-> \A k \in 1..Len(pre.heap[list.ref].items) :
                                Predicate(pre.heap[pre.heap[list.ref].items[k]], val)] :
                pre \in {assertPrerequisitesIn(list.heap, val, list.ref, 1)} }) :
         list \in {resolvedAt(h, descriptor, i)} })

\* descriptor.some(...), from index i on: r is what the callback returned
assertSomeIn(h, val, descriptor, i) ==
  IF i > Len(h[descriptor].items) THEN [heap |-> h, res |-> FALSE]
  ELSE Only({ IF r.res THEN r ELSE assertSomeIn(r.heap, val, descriptor, i + 1) :
              r \in {assertCondListIn(h, val, descriptor, i)} })

assertIn(h, val, descriptor) == assertSomeIn(h, val, descriptor, 1)

\* #getMostRelevantFailingCondition (lines 949-998) on the heap: max,
\* result and ignoreConditions are objects; firstFail, maxCount and
\* levelCount are the variables of one run of the outer loop (level)
RECURSIVE getMostRelevantIn(_, _, _, _)
RECURSIVE relevantAlternativesIn(_, _, _, _, _, _)
RECURSIVE relevantConditionsIn(_, _, _, _, _)

\* lines 977-989, with result the FailingData of the condition: invoked
\* tells that result.failing is undefined, passes what cond.assert returns
afterPrerequisitesIn(h, val, cond, result, level) ==
  Only({ [heap |-> IF invoked /\ ~passes THEN [h EXCEPT ![result].failing = cond] ELSE h,
          firstFail |-> IF level.firstFail # NoObject THEN level.firstFail
                        ELSE IF invoked /\ ~passes THEN cond ELSE h[result].failing,
          maxCount |-> IF h[result].count > level.maxCount THEN h[result].count
                       ELSE level.maxCount,
          levelCount |-> IF invoked /\ passes THEN level.levelCount + 10
                         ELSE level.levelCount] :
         invoked \in {h[result].failing = NoObject},
         passes \in {Predicate(h[cond], val)} })

\* lines 968-976: the condition is pushed to ignoreConditions, a result is
\* made, and the search of the prerequisites (sub) puts its own in its
\* place
visitConditionIn(h, val, cond, ignoreConditions, level) ==
  Only({ IF /\ result.heap[cond].conditions # NoObject
            /\ Len(result.heap[result.heap[cond].conditions].items) > 0
         THEN Only({ afterPrerequisitesIn(
                       [sub.heap EXCEPT ![sub.ref].count = Plus(@, -1)],
                       val, cond, sub.ref, level) :
                     sub \in {getMostRelevantIn(result.heap, val,
                                                result.heap[cond].conditions,
                                                ignoreConditions)} })
         ELSE afterPrerequisitesIn(result.heap, val, cond, result.ref, level) :
         result \in {alloc(push(h, ignoreConditions, cond),
                           [kind |-> "failing", count |-> 0, failing |-> NoObject])} })

\* the inner for loop, from index k on; level carries the heap
relevantConditionsIn(val, condList, k, ignoreConditions, level) ==
  IF k > Len(level.heap[condList].items) THEN level
  ELSE IF \E j \in 1..Len(level.heap[ignoreConditions].items) :
            level.heap[ignoreConditions].items[j] = level.heap[condList].items[k]
  THEN relevantConditionsIn(val, condList, k + 1, ignoreConditions, level)
  ELSE Only({ relevantConditionsIn(val, condList, k + 1, ignoreConditions, visited) :
              visited \in {visitConditionIn(level.heap, val,
                                            level.heap[condList].items[k],
                                            ignoreConditions, level)} })

\* the outer for loop, from index i on: list is the resolved condList,
\* level what the inner loop left; max is written after the inner loop
\* (lines 992-995)
relevantAlternativesIn(h, val, descriptor, i, ignoreConditions, max) ==
  IF i > Len(h[descriptor].items) THEN [heap |-> h, ref |-> max]
  ELSE Only({ Only({ relevantAlternativesIn(
                       IF Plus(level.maxCount, level.levelCount) > level.heap[max].count
                       THEN [level.heap EXCEPT
                               ![max].failing = level.firstFail,
                               ![max].count = Plus(level.maxCount, level.levelCount)]
                       ELSE level.heap,
                       val, descriptor, i + 1, ignoreConditions, max) :
                     level \in {relevantConditionsIn(
                                  val, list.ref, 1, ignoreConditions,
                                  [heap |-> list.heap, firstFail |-> NoObject,
                                   maxCount |-> NegInfinity, levelCount |-> 0])} }) :
              list \in {resolvedAt(h, descriptor, i)} })

getMostRelevantIn(h, val, descriptor, ignoreConditions) ==
  Only({ relevantAlternativesIn(max.heap, val, descriptor, 1, ignoreConditions, max.ref) :
         max \in {alloc(h, [kind |-> "failing", count |-> NegInfinity,
                            failing |-> NoObject])} })

\* a faulty variant: the default value is made by the first call and kept in a field of
\* the class, so that a call starts with the array the call before it left
DefaultIgnoreConditionsKept(h) ==
  IF Len(h[1].fields) > 0 THEN [heap |-> h, ref |-> h[1].fields[1]]
  ELSE Only({ [heap |-> [array.heap EXCEPT ![1].fields = <<array.ref>>],
               ref |-> array.ref] :
              array \in {alloc(h, [kind |-> "array", items |-> <<>>])} })

\* ignoreConditions: Condition[] = [] (line 950): the default value, made
\* anew by every call that leaves the parameter out
DefaultIgnoreConditionsIn(h) == alloc(h, [kind |-> "array", items |-> <<>>])

\* getMostRelevantFailingCondition (lines 946-948), descriptor being the
\* array of its rest parameter: failing is the Condition returned, start
\* and visited are the conditions in ignoreConditions (array) when the
\* search got the array and when it ended
getMostRelevantFailingConditionIn(h, val, descriptor) ==
  Only({ Only({ [heap |-> max.heap, failing |-> max.heap[max.ref].failing,
                 start |-> [k \in 1..Len(array.heap[array.ref].items) |->
                              array.heap[array.heap[array.ref].items[k]].name],
                 visited |-> [k \in 1..Len(max.heap[array.ref].items) |->
                                max.heap[max.heap[array.ref].items[k]].name]] :
                max \in {getMostRelevantIn(array.heap, val, descriptor, array.ref)} }) :
         array \in {DefaultIgnoreConditionsIn(h)} })

\* assertFind (lines 927-930): a is what assert returned
assertFindIn(h, val, descriptor) ==
  Only({ IF a.res
         THEN [heap |-> a.heap, failing |-> NoObject, start |-> <<>>, visited |-> <<>>]
         ELSE Only({ getMostRelevantFailingConditionIn(rest.heap, val, rest.ref) :
                     rest \in {spread(a.heap, descriptor)} }) :
         a \in { assertIn(rest.heap, val, rest.ref) :
                 rest \in {spread(h, descriptor)} } })

\* getMessageIs (lines 1032-1046): found is what assertFind returned
getMessageIsIn(h, val, descriptor) ==
  Only({ [heap |-> found.heap,
          text |-> IF found.failing # NoObject
                   THEN CallIs(found.heap[found.failing], val) ELSE "",
          start |-> found.start, visited |-> found.visited] :
         found \in { assertFindIn(rest.heap, val, rest.ref) :
                     rest \in {spread(h, descriptor)} } })

\* makePartial (lines 1188-1194): message is the shouldBe of a Condition,
\* before and after are the two new arrays
makePartialIn(h, message) ==
  Only({ Only({ alloc(after.heap, [kind |-> "partial", before |-> before.ref,
                                   type |-> after.heap[message].type,
                                   after |-> after.ref]) :
                after \in {alloc(before.heap,
                                 [kind |-> "strings",
                                  items |-> IF Truthy(before.heap[message].after)
                                            THEN <<before.heap[message].after.str>>
                                            ELSE <<>>])} }) :
         before \in {alloc(h, [kind |-> "strings",
                               items |-> IF Truthy(h[message].before)
                                         THEN <<h[message].before.str>>
                                         ELSE <<>>])} })

\* mergeMessages (lines 1196-1200): the heap after the target is written
mergeMessagesIn(h, target, source) ==
  [h EXCEPT ![h[target].before].items = @ \o h[h[source].before].items,
            ![h[target].after].items = @ \o h[h[source].after].items,
            ![target].type = IF ~Truthy(@) THEN h[source].type ELSE @]

\* messageList.filter(...) (lines 1178-1185): a new array
filterDuplicatesIn(h, messageList) ==
  LET list == h[messageList].items
      \* messageIsEqual (lines 1202-1206)
      messageIsEqualIn(part1, part2) ==
        /\ arrayIsEqual(h[h[part1].before].items, h[h[part2].before].items)
        /\ arrayIsEqual(h[h[part1].after].items, h[h[part2].after].items)
        /\ h[part1].type = h[part2].type
      F[i \in 0..Len(list)] ==
        IF i = 0 THEN <<>>
        ELSE IF \A j \in (i + 1)..Len(list) : ~messageIsEqualIn(list[i], list[j])
        THEN Append(F[i - 1], list[i])
        ELSE F[i - 1]
  IN alloc(h, [kind |-> "array", items |-> F[Len(list)]])

RECURSIVE mergeDescriptorMessagesHelperIn(_, _)
RECURSIVE mergeAlternativesIn(_, _, _, _)
RECURSIVE mergeOwnIn(_, _, _, _)
RECURSIVE mergeResultsIn(_, _, _, _)
RECURSIVE mergeSingleIn(_, _, _, _)
RECURSIVE mergeDeepIn(_, _, _, _, _)
RECURSIVE mergeDeepOfIn(_, _, _, _, _)

\* lines 1148-1151: the for loop from index k on
mergeOwnIn(h, condList, k, currentMessage) ==
  IF k > Len(h[condList].items) THEN h
  ELSE Only({ mergeOwnIn(mergeMessagesIn(partial.heap, currentMessage, partial.ref),
                         condList, k + 1, currentMessage) :
              partial \in {makePartialIn(h, h[h[condList].items[k]].shouldBe)} })

\* lines 1153-1155: the for loop from index k on
mergeResultsIn(h, condList, k, results) ==
  IF k > Len(h[condList].items) THEN h
  ELSE Only({ mergeResultsIn(push(result.heap, results, result.ref),
                             condList, k + 1, results) :
              result \in {mergeDescriptorMessagesHelperIn(
                            h, h[h[condList].items[k]].conditions)} })

\* lines 1157-1161: the for loop from index k on
mergeSingleIn(h, results, k, currentMessage) ==
  IF k > Len(h[results].items) THEN h
  ELSE IF Len(h[h[results].items[k]].items) = 1
  THEN mergeSingleIn(mergeMessagesIn(h, currentMessage, h[h[results].items[k]].items[1]),
                     results, k + 1, currentMessage)
  ELSE mergeSingleIn(h, results, k + 1, currentMessage)

\* lines 1164-1167: the for loop over one result, from index m on
mergeDeepOfIn(h, result, m, currentMessage, messageList) ==
  IF m > Len(h[result].items) THEN h
  ELSE mergeDeepOfIn(push(mergeMessagesIn(h, h[result].items[m], currentMessage),
                          messageList, h[result].items[m]),
                     result, m + 1, currentMessage, messageList)

\* lines 1162-1170: the for loop from index k on
mergeDeepIn(h, results, k, currentMessage, messageList) ==
  IF k > Len(h[results].items) THEN h
  ELSE IF Len(h[h[results].items[k]].items) > 1
  THEN Only({ mergeDeepIn(merged, results, k + 1, currentMessage, messageList) :
              merged \in {mergeDeepOfIn(h, h[results].items[k], 1, currentMessage,
                                        messageList)} })
  ELSE mergeDeepIn(h, results, k + 1, currentMessage, messageList)

\* lines 1144-1174: the body of the for loop for a condList that is not
\* empty: currentMessage and results are made, the four loops run one
\* after the other (own, nested, single, after), and currentMessage is
\* pushed unless a result has more than one fragment (lines 1172-1174)
mergeCondListIn(h, condList, messageList) ==
  Only({ Only({ Only({ IF \E k \in 1..Len(after[results.ref].items) :
                            Len(after[after[results.ref].items[k]].items) > 1
                       THEN after
                       ELSE push(after, messageList, currentMessage.ref) :
                       after \in { mergeDeepIn(single, results.ref, 1,
                                               currentMessage.ref, messageList) :
                         single \in { mergeSingleIn(nested, results.ref, 1,
                                                    currentMessage.ref) :
                           nested \in { mergeResultsIn(own, condList, 1, results.ref) :
                             own \in {mergeOwnIn(results.heap, condList, 2,
                                                 currentMessage.ref)} } } } }) :
                results \in {alloc(currentMessage.heap, [kind |-> "array", items |-> <<>>])} }) :
         currentMessage \in {makePartialIn(h, h[h[condList].items[1]].shouldBe)} })

\* the for loop over the descriptor (lines 1140-1175), from index i on
mergeAlternativesIn(h, descriptor, i, messageList) ==
  IF i > Len(h[descriptor].items) THEN h
  ELSE Only({ IF Len(list.heap[list.ref].items) = 0
              THEN mergeAlternativesIn(list.heap, descriptor, i + 1, messageList)
              ELSE Only({ mergeAlternativesIn(merged, descriptor, i + 1, messageList) :
                          merged \in {mergeCondListIn(list.heap, list.ref,
                                                      messageList)} }) :
              list \in {resolvedAt(h, descriptor, i)} })

\* #mergeDescriptorMessagesHelper (lines 1129-1185); descriptor is NoObject
\* for a Condition without the field conditions, and the array of the rest
\* parameter for mergeDescriptorMessages (lines 1126-1128)
mergeDescriptorMessagesHelperIn(h, descriptor) ==
  IF descriptor = NoObject
  THEN Only({ Only({ Only({ alloc(partial.heap, [kind |-> "array", items |-> <<partial.ref>>]) :
                            partial \in {alloc(after.heap,
                                               [kind |-> "partial",
                                                before |-> before.ref, type |-> None,
                                                after |-> after.ref])} }) :
                     after \in {alloc(before.heap, [kind |-> "strings", items |-> <<>>])} }) :
              before \in {alloc(h, [kind |-> "strings", items |-> <<>>])} })
  ELSE Only({ Only({ filterDuplicatesIn(merged, messageList.ref) :
                     merged \in {mergeAlternativesIn(messageList.heap, descriptor, 1,
                                                     messageList.ref)} }) :
              messageList \in {alloc(h, [kind |-> "array", items |-> <<>>])} })

\* getMessageExpected (lines 1058-1064); compilePartialMessage reads the
\* fragment it is handed, what it joins and sorts are the arrays its map()
\* made (lines 1088-1100)
getMessageExpectedIn(h, descriptor) ==
  Only({ [heap |-> messageList.heap,
          text |-> join([k \in 1..Len(messageList.heap[messageList.ref].items) |->
                           compilePartialMessage(
                             ReadPartial(messageList.heap,
                                         messageList.heap[messageList.ref].items[k]))],
                        " OR ")] :
         messageList \in { mergeDescriptorMessagesHelperIn(rest.heap, rest.ref) :
                           rest \in {spread(h, descriptor)} } })

\* assertAndThrow (lines 872-880): a is what assert returned, expected
\* what getMessageExpected returned and is what getMessageIs returned
assertAndThrowIn(h, val, descriptor) ==
  Only({ IF a.res
         THEN [heap |-> a.heap, threw |-> FALSE, res |-> TRUE,
               error |-> TypeCheckError("", ""), start |-> <<>>, visited |-> <<>>]
         ELSE Only({ Only({ [heap |-> is.heap, threw |-> TRUE, res |-> FALSE,
                             error |-> TypeCheckError(expected.text, is.text),
                             start |-> is.start, visited |-> is.visited] :
                            is \in { getMessageIsIn(rest.heap, val, rest.ref) :
                                     rest \in {spread(expected.heap, descriptor)} } }) :
                     expected \in { getMessageExpectedIn(rest.heap, rest.ref) :
                                    rest \in {spread(a.heap, descriptor)} } }) :
         a \in { assertIn(rest.heap, val, rest.ref) :
                 rest \in {spread(h, descriptor)} } })
(***************************************************************************)
(* The top-level calls                                                     *)
(***************************************************************************)
Undefined == [typeof |-> "undefined", isArray |-> FALSE, isNaN |-> FALSE,
              isNull |-> FALSE, n10 |-> 0, str |-> ""]

NoCall ==
  [op |-> "none", val |-> Undefined, descriptor |-> <<>>, res |-> FALSE,
   failing |-> None, text |-> "", threw |-> FALSE, expected |-> "", is |-> "",
   message |-> "", trace |-> <<>>, search |-> <<>>, start |-> <<>>,
   visited |-> <<>>, count |-> 0, fragments |-> <<>>, overflow |-> FALSE,
   arguments |-> <<>>, revisited |-> FALSE,
   partial |-> [before |-> <<>>, type |-> None, after |-> <<>>]]

\* the sort of the engine the program runs on
Engines == {"insertion", "timsort"}

Init ==
  /\ \E program \in Programs :
       /\ conds = [c \in program.graph |-> Universe[c]]
       /\ site = [roots |-> program.roots, values |-> program.values]
  /\ engine \in Engines
  /\ heap = Built(conds)
  /\ last = NoCall
  /\ calls = 0

\* the number of top-level calls made so far, counted up to MaxCalls
Counted == IF calls < MaxCalls THEN calls + 1 ELSE calls

\* The five public methods, called with a value of the call site and one of
\* the descriptors given.  A call leaves the graph, the call site and the
\* engine as they are; what it returned, and what it did on the way, is
\* recorded in last.
CallAssert(descriptors) ==
  /\ \E val \in site.values, descriptor \in descriptors :
       \E r \in {assert(val, descriptor, 0)} :
         last' = [NoCall EXCEPT !.op = "assert", !.val = val,
                                !.descriptor = descriptor,
                                !.res = r.res, !.trace = r.trace,
                                !.overflow = r.overflow]
  /\ calls' = Counted
  /\ UNCHANGED <<conds, site, engine, heap>>

CallAssertFind(descriptors) ==
  /\ \E val \in site.values, descriptor \in descriptors :
       \E r \in {assertFind(val, descriptor)} :
         last' = [NoCall EXCEPT !.op = "assertFind", !.val = val,
                                !.descriptor = descriptor,
                                !.failing = r.failing, !.trace = r.trace,
                                !.search = r.search, !.start = r.start,
                                !.visited = r.visited, !.overflow = r.overflow]
  /\ calls' = Counted
  /\ UNCHANGED <<conds, site, engine, heap>>

CallGetMessageIs(descriptors) ==
  /\ \E val \in site.values, descriptor \in descriptors :
       \E r \in {getMessageIs(val, descriptor)} :
         last' = [NoCall EXCEPT !.op = "getMessageIs", !.val = val,
                                !.descriptor = descriptor,
                                !.text = r.text, !.trace = r.trace,
                                !.search = r.search, !.start = r.start,
                                !.visited = r.visited, !.overflow = r.overflow]
  /\ calls' = Counted
  /\ UNCHANGED <<conds, site, engine, heap>>

CallGetMessageExpected(descriptors) ==
  /\ \E descriptor \in descriptors :
       last' = [NoCall EXCEPT !.op = "getMessageExpected",
                              !.descriptor = descriptor,
                              !.text = getMessageExpected(descriptor)]
  /\ calls' = Counted
  /\ UNCHANGED <<conds, site, engine, heap>>

CallAssertAndThrow(descriptors) ==
  /\ \E val \in site.values, descriptor \in descriptors :
       \E r \in {assertAndThrow(val, descriptor)} :
         last' = [NoCall EXCEPT !.op = "assertAndThrow", !.val = val,
                                !.descriptor = descriptor,
                                !.res = r.res, !.threw = r.threw,
                                !.expected = r.error.expected,
                                !.is = r.error.is, !.message = r.error.message,
                                !.trace = r.trace, !.search = r.search,
                                !.start = r.start, !.visited = r.visited,
                                !.overflow = r.overflow]
  /\ calls' = Counted
  /\ UNCHANGED <<conds, site, engine, heap>>

CallMergeDescriptorMessages(descriptors) ==
  /\ \E descriptor \in descriptors :
       last' = [NoCall EXCEPT !.op = "mergeDescriptorMessages",
                              !.descriptor = descriptor,
                              !.fragments = mergeDescriptorMessages(descriptor)]
  /\ calls' = Counted
  /\ UNCHANGED <<conds, site, engine, heap>>

\* the sequences over a set of items, up to a length
SeqsUpTo(items, max) == UNION { [1..n -> items] : n \in 0..max }

\* the fragments (MessagePartial) handed to compilePartialMessage: shouldBe
\* texts of the catalogue, of the README and of the tests
BeforeItems == {"positive", "non-empty"}
AfterItems == {"that is divisible by 5", "that is greater than 25", "of length 5"}
Partials ==
  { [before |-> before, type |-> type, after |-> after] :
      before \in SeqsUpTo(BeforeItems, MaxBefore),
      type \in {None, Some("integer")},
      after \in SeqsUpTo(AfterItems, MaxAfter) }

CallCompilePartialMessage(partials) ==
  /\ \E messagePartial \in partials :
       last' = [NoCall EXCEPT !.op = "compilePartialMessage",
                              !.partial = messagePartial,
                              !.text = compilePartialMessage(messagePartial)]
  /\ calls' = Counted
  /\ UNCHANGED <<conds, site, engine, heap>>

CallGetMostRelevantFailingCondition(descriptors) ==
  /\ \E val \in site.values, descriptor \in descriptors :
       \E r \in {getMostRelevantFailingCondition(val, descriptor)} :
         last' = [NoCall EXCEPT !.op = "getMostRelevantFailingCondition",
                                !.val = val, !.descriptor = descriptor,
                                !.failing = r.failing, !.count = r.count,
                                !.search = r.trace,
                                !.start = DefaultIgnoreConditions,
                                !.visited = r.ignore]
  /\ calls' = Counted
  /\ UNCHANGED <<conds, site, engine, heap>>

CallGetDescriptorPassCount(descriptors) ==
  /\ \E val \in site.values, descriptor \in descriptors :
       last' = [NoCall EXCEPT !.op = "getDescriptorPassCount", !.val = val,
                              !.descriptor = descriptor,
                              !.count = getDescriptorPassCount(val, descriptor)]
  /\ calls' = Counted
  /\ UNCHANGED <<conds, site, engine, heap>>

(***************************************************************************)
(* The public methods called on a heap.  The caller writes the descriptor  *)
(* (an array of its own, every AND-group an array of its own) and calls    *)
(* method(val, ...own).  What a call returns here is the heap as the call  *)
(* leaves it, and the record of the call: what the method returned, and    *)
(* the caller's descriptor as it is read from the heap after the call      *)
(* (arguments).                                                            *)
(***************************************************************************)
\* the caller's array (own) and the rest parameter of the method (ref)
Written(h, descriptor) ==
  Only({ Only({ [heap |-> rest.heap, own |-> own.ref, ref |-> rest.ref] :
                rest \in {spread(own.heap, own.ref)} }) :
         own \in {allocDescriptor(h, descriptor, 1, <<>>)} })

\* the call has returned: after is the heap, call holds what was returned,
\* arguments the caller's array (own) as it is read from the heap
Recorded(op, val, descriptor, own, after, call) ==
  [heap |-> after,
   call |-> [call EXCEPT
               !.op = op, !.val = val, !.descriptor = descriptor,
               !.arguments =
                 [i \in 1..Len(after[own].items) |->
                    IF after[after[own].items[i]].kind = "array"
                    THEN All([k \in 1..Len(after[after[own].items[i]].items) |->
                                after[after[after[own].items[i]].items[k]].name])
                    ELSE One(after[after[own].items[i]].name)]]]

CallAssertIn(h, val, descriptor) ==
  Only({ Only({ Recorded("assert", val, descriptor, w.own, a.heap,
                         [NoCall EXCEPT !.res = a.res]) :
                a \in {assertIn(w.heap, val, w.ref)} }) :
         w \in {Written(h, descriptor)} })

CallAssertFindIn(h, val, descriptor) ==
  Only({ Only({ Recorded("assertFind", val, descriptor, w.own, a.heap,
                         [NoCall EXCEPT
                            !.failing = IF a.failing = NoObject THEN None
                                        ELSE Some(a.heap[a.failing].name),
                            !.start = a.start, !.visited = a.visited]) :
                a \in {assertFindIn(w.heap, val, w.ref)} }) :
         w \in {Written(h, descriptor)} })

CallGetMessageIsIn(h, val, descriptor) ==
  Only({ Only({ Recorded("getMessageIs", val, descriptor, w.own, a.heap,
                         [NoCall EXCEPT !.text = a.text, !.start = a.start,
                                        !.visited = a.visited]) :
                a \in {getMessageIsIn(w.heap, val, w.ref)} }) :
         w \in {Written(h, descriptor)} })

CallGetMessageExpectedIn(h, val, descriptor) ==
  Only({ Only({ Recorded("getMessageExpected", val, descriptor, w.own, a.heap,
                         [NoCall EXCEPT !.text = a.text]) :
                a \in {getMessageExpectedIn(w.heap, w.ref)} }) :
         w \in {Written(h, descriptor)} })

CallMergeDescriptorMessagesIn(h, val, descriptor) ==
  Only({ Only({ Recorded("mergeDescriptorMessages", val, descriptor, w.own, a.heap,
                         [NoCall EXCEPT
                            !.fragments = [k \in 1..Len(a.heap[a.ref].items) |->
                                             ReadPartial(a.heap,
                                                         a.heap[a.ref].items[k])]]) :
                a \in {mergeDescriptorMessagesHelperIn(w.heap, w.ref)} }) :
         w \in {Written(h, descriptor)} })

CallAssertAndThrowIn(h, val, descriptor) ==
  Only({ Only({ Recorded("assertAndThrow", val, descriptor, w.own, a.heap,
                         [NoCall EXCEPT
                            !.res = a.res, !.threw = a.threw,
                            !.expected = a.error.expected, !.is = a.error.is,
                            !.message = a.error.message,
                            !.start = a.start, !.visited = a.visited]) :
                a \in {assertAndThrowIn(w.heap, val, w.ref)} }) :
         w \in {Written(h, descriptor)} })

\* A call on the heap of the program has returned r.  The call found the
\* heap as the calls before it left it and leaves it to the calls after
\* it; last is the record of the call, and tells whether the search of
\* this call visited a condition that the search of the call before it had
\* visited (revisited).
ReturnedOnHeap(r) ==
  /\ last' = [r.call EXCEPT
                !.revisited = \E k \in 1..Len(r.call.visited) :
                                Includes(last.visited, r.call.visited[k])]
  /\ heap' = Kept(r.heap, Len(heap))
  /\ calls' = calls + 1
  /\ UNCHANGED <<conds, site, engine>>

(***************************************************************************)
(* Spec: one top-level call of a fresh program, with every descriptor up   *)
(* to MaxSize.                                                             *)
(***************************************************************************)
AssertCall == last.op = "none" /\ CallAssert(Descriptors(site.roots))

AssertFindCall == last.op = "none" /\ CallAssertFind(Descriptors(site.roots))

GetMessageIsCall == last.op = "none" /\ CallGetMessageIs(Descriptors(site.roots))

GetMessageExpectedCall ==
  last.op = "none" /\ CallGetMessageExpected(Descriptors(site.roots))

AssertAndThrowCall == last.op = "none" /\ CallAssertAndThrow(Descriptors(site.roots))

MergeDescriptorMessagesCall ==
  last.op = "none" /\ CallMergeDescriptorMessages(Descriptors(site.roots))

CompilePartialMessageCall ==
  last.op = "none" /\ CallCompilePartialMessage(Partials)

GetDescriptorPassCountCall ==
  last.op = "none" /\ CallGetDescriptorPassCount(Descriptors(site.roots))

Next ==
  \/ AssertCall
  \/ AssertFindCall
  \/ GetMessageIsCall
  \/ GetMessageExpectedCall
  \/ AssertAndThrowCall
  \/ MergeDescriptorMessagesCall
  \/ CompilePartialMessageCall

Spec == Init /\ [][Next]_vars

(***************************************************************************)
(* The calls of Spec by what they return: SpecCheck has the calls that      *)
(* check a value (assert, assertFind, getMessageIs), SpecMessage the calls  *)
(* that write a message (getMessageExpected, assertAndThrow,                *)
(* mergeDescriptorMessages, compilePartialMessage).  SpecCount has the   *)
(* call of the later revision of the class (getDescriptorPassCount, lines   *)
(* 1611-1635) in the programs of that revision.  Each is one top-level     *)
(* call of a fresh program, with every descriptor up to MaxSize.           *)
(***************************************************************************)
NextCheck ==
  \/ AssertCall
  \/ AssertFindCall
  \/ GetMessageIsCall

SpecCheck == Init /\ [][NextCheck]_vars

NextMessage ==
  \/ GetMessageExpectedCall
  \/ AssertAndThrowCall
  \/ MergeDescriptorMessagesCall
  \/ CompilePartialMessageCall

SpecMessage == Init /\ [][NextMessage]_vars

InitLater ==
  /\ \E program \in LaterPrograms :
       /\ conds = [c \in program.graph |-> LaterUniverse[c]]
       /\ site = [roots |-> program.roots, values |-> program.values]
  /\ engine \in Engines
  /\ heap = Built(conds)
  /\ last = NoCall
  /\ calls = 0

NextCount == GetDescriptorPassCountCall

SpecCount == InitLater /\ [][NextCount]_vars

(***************************************************************************)
(* SpecFrame: the calls that check, search and merge conditions, following *)
(* one another on the heap of the programs whose conditions share          *)
(* prerequisites that merge (one fragment, and several), with the          *)
(* descriptors of RepeatDescriptors, as MaxCalls calls.  The methods       *)
(* without a value are called with undefined in its place.                 *)
(***************************************************************************)
FramePrograms ==
  { program \in Programs :
      program.roots \in { {"string", "nonempty", "array"},
                          {"fail", "okGated", "okEither"} } }

InitFrame ==
  /\ \E program \in FramePrograms :
       /\ conds = [c \in program.graph |-> Universe[c]]
       /\ site = [roots |-> program.roots, values |-> program.values]
  /\ engine \in Engines
  /\ heap = Built(conds)
  /\ last = NoCall
  /\ calls = 0

AssertFrame ==
  /\ calls < MaxCalls
  /\ \E val \in site.values, descriptor \in RepeatDescriptors(site.roots) :
       \E r \in {CallAssertIn(heap, val, descriptor)} : ReturnedOnHeap(r)

AssertFindFrame ==
  /\ calls < MaxCalls
  /\ \E val \in site.values, descriptor \in RepeatDescriptors(site.roots) :
       \E r \in {CallAssertFindIn(heap, val, descriptor)} : ReturnedOnHeap(r)

GetMessageIsFrame ==
  /\ calls < MaxCalls
  /\ \E val \in site.values, descriptor \in RepeatDescriptors(site.roots) :
       \E r \in {CallGetMessageIsIn(heap, val, descriptor)} : ReturnedOnHeap(r)

GetMessageExpectedFrame ==
  /\ calls < MaxCalls
  /\ \E val \in {Undefined}, descriptor \in RepeatDescriptors(site.roots) :
       \E r \in {CallGetMessageExpectedIn(heap, val, descriptor)} : ReturnedOnHeap(r)

MergeDescriptorMessagesFrame ==
  /\ calls < MaxCalls
  /\ \E val \in {Undefined}, descriptor \in RepeatDescriptors(site.roots) :
       \E r \in {CallMergeDescriptorMessagesIn(heap, val, descriptor)} : ReturnedOnHeap(r)

AssertAndThrowFrame ==
  /\ calls < MaxCalls
  /\ \E val \in site.values, descriptor \in RepeatDescriptors(site.roots) :
       \E r \in {CallAssertAndThrowIn(heap, val, descriptor)} : ReturnedOnHeap(r)

NextFrame ==
  \/ AssertFrame
  \/ AssertFindFrame
  \/ GetMessageIsFrame
  \/ GetMessageExpectedFrame
  \/ MergeDescriptorMessagesFrame
  \/ AssertAndThrowFrame

SpecFrame == InitFrame /\ [][NextFrame]_vars

(***************************************************************************)
(* SpecCyclic: one top-level call of a program whose condition graph has a *)
(* cycle.                                                                  *)
(***************************************************************************)
InitCyclic ==
  /\ \E program \in CyclicPrograms :
       /\ conds = [c \in program.graph |-> Universe[c]]
       /\ site = [roots |-> program.roots, values |-> program.values]
  /\ engine \in Engines
  /\ heap = Built(conds)
  /\ last = NoCall
  /\ calls = 0

AssertCyclic == last.op = "none" /\ CallAssert(Descriptors(site.roots))

AssertFindCyclic == last.op = "none" /\ CallAssertFind(Descriptors(site.roots))

GetMessageIsCyclic == last.op = "none" /\ CallGetMessageIs(Descriptors(site.roots))

GetMostRelevantFailingConditionCyclic ==
  last.op = "none" /\ CallGetMostRelevantFailingCondition(Descriptors(site.roots))

NextCyclic ==
  \/ AssertCyclic
  \/ AssertFindCyclic
  \/ GetMessageIsCyclic
  \/ GetMostRelevantFailingConditionCyclic

SpecCyclic == InitCyclic /\ [][NextCyclic]_vars

(***************************************************************************)
(* Properties                                                              *)
(***************************************************************************)
\* what a descriptor says of a value, read off its structure: some
\* alternative all of whose conditions hold, prerequisites first
RECURSIVE Satisfies(_, _)
Satisfies(val, descriptor) ==
  \E i \in 1..Len(descriptor) :
    LET condList == IF descriptor[i].isArray THEN descriptor[i].list
                    ELSE <<descriptor[i].cond>>
    IN \A k \in 1..Len(condList) :
         /\ conds[condList[k]].conditions.defined
              => Satisfies(val, conds[condList[k]].conditions.descriptor)
         /\ Predicate(conds[condList[k]], val)

\* events i and k of a trace belong to one run of the callback on one
\* alternative: same depth, and no alternative started in between
SameGroup(t, i, k) ==
  /\ t[i].depth = t[k].depth
  /\ \A j \in (i + 1)..k : ~(t[j].ev = "group" /\ t[j].depth <= t[i].depth)

\* result k of a search trace belongs to the alternative that ends at a
InAlternative(t, k, a) ==
  /\ k < a
  /\ t[k].ev = "result"
  /\ t[k].depth = t[a].depth
  /\ \A j \in (k + 1)..(a - 1) : ~(t[j].ev = "alternative" /\ t[j].depth <= t[a].depth)

\* the number of the alternative of the top-level descriptor that event k
\* of an assert trace belongs to
AlternativeOf(t, k) ==
  Cardinality({ j \in 1..k : t[j].ev = "group" /\ t[j].depth = 0 })

\* the calls that run the search for the failing condition
Searches == {"assertFind", "getMessageIs", "assertAndThrow"}

\* a condition with prerequisites to hold
Gated(name) ==
  conds[name].conditions.defined /\ Len(conds[name].conditions.descriptor) > 0

\* C1: assert(v, ...D) is true exactly when some alternative of D has, for
\* every one of its conditions, the prerequisites (when the field conditions
\* is present) asserting recursively on v and the own predicate holding on v.
C1_AssertIsOrOfAnd ==
  last.op = "assert" => (last.res <=> Satisfies(last.val, last.descriptor))

\* an assert that came true on a later alternative, after prerequisites were
\* consulted
C1_Witness ==
  /\ last.op = "assert"
  /\ last.res
  /\ \E k \in 1..Len(last.trace) :
       last.trace[k].ev = "pre" /\ AlternativeOf(last.trace, k) >= 2

\* C2: assertAndThrow throws exactly when assert is false and returns true
\* otherwise; the error carries expected = getMessageExpected(...D),
\* is = getMessageIs(v, ...D) and message = "Expected " + expected +
\* ", got " + is, with nothing after it.
C2_AssertAndThrow ==
  last.op = "assertAndThrow" =>
    /\ last.threw <=> ~assert(last.val, last.descriptor, 0).res
    /\ ~last.threw => last.res
    /\ last.threw =>
         /\ last.expected = getMessageExpected(last.descriptor)
         /\ last.is = getMessageIs(last.val, last.descriptor).text
         /\ last.message = "Expected " \o last.expected \o ", got " \o last.is

\* an assertAndThrow that threw, with both parts of the message present
C2_Witness ==
  /\ last.op = "assertAndThrow"
  /\ last.threw
  /\ last.expected # ""
  /\ last.is # ""
  /\ Len(last.descriptor) >= 2

\* C3: assertFind returns undefined exactly when assert is true, so that
\* getMessageIs is the empty string only when the value asserts.
C3_FindIffAssert ==
  /\ last.op = "assertFind" =>
       (~last.failing.defined <=> assert(last.val, last.descriptor, 0).res)
  /\ last.op = "getMessageIs" =>
       (last.text = "" => assert(last.val, last.descriptor, 0).res)

\* C4: during assertFind, getMessageIs and assertAndThrow the own predicate
\* of a condition is never invoked on a value that fails the prerequisites
\* of that condition.
C4_ShortCircuit ==
  last.op \in Searches =>
    \A t \in {last.trace, last.search} :
      \A k \in 1..Len(t) :
        (t[k].ev = "own" /\ Gated(t[k].cond)) =>
          assert(t[k].val, conds[t[k].cond].conditions.descriptor, 0).res

\* C5: in assert, the prerequisites of every condition of an AND-group are
\* evaluated, on the value of the call, before any own predicate of the
\* group is invoked; when the prerequisites of a condition fail, no own
\* predicate of the group is invoked.
C5_PrerequisitesFirst ==
  last.op = "assert" =>
    LET t == last.trace
    IN /\ \A k \in 1..Len(t) : t[k].val = last.val
       /\ \A i \in 1..Len(t) : \A k \in (i + 1)..Len(t) :
            (t[i].ev = "own" /\ t[k].ev = "pre") => ~SameGroup(t, i, k)
       /\ \A i \in 1..Len(t) : \A k \in (i + 1)..Len(t) :
            ( /\ t[i].ev = "pre" /\ t[k].ev = "own"
              /\ ~assert(t[i].val, conds[t[i].cond].conditions.descriptor, 0).res )
              => ~SameGroup(t, i, k)
       /\ \A k \in 1..Len(t) :
            (t[k].ev = "own" /\ t[k].depth = 0) =>
              LET condList == resolveConditionList(last.descriptor[AlternativeOf(t, k)])
              IN \A m \in 1..Len(condList) :
                   conds[condList[m]].conditions.defined =>
                     \E i \in 1..(k - 1) :
                       /\ t[i].ev = "pre"
                       /\ t[i].cond = condList[m]
                       /\ SameGroup(t, i, k)

\* an AND-group of two conditions with prerequisites, both consulted before
\* an own predicate of the group was invoked
C5_Witness ==
  /\ last.op = "assert"
  /\ \E i, j, k \in 1..Len(last.trace) :
       /\ i < j /\ j < k
       /\ last.trace[i].ev = "pre" /\ last.trace[i].depth = 0
       /\ last.trace[j].ev = "pre" /\ last.trace[j].depth = 0
       /\ last.trace[i].cond # last.trace[j].cond
       /\ last.trace[k].ev = "own"
       /\ SameGroup(last.trace, i, k)

\* the descriptor (Cond.string, [Cond.positive, Cond.integer])
StringOrPositiveInteger == <<One("string"), All(<<"positive", "integer">>)>>

\* C6: for -3 and (Cond.string, [Cond.positive, Cond.integer]) assert is
\* false and assertAndThrow throws with expected "positive integer OR
\* string" and is "a negative number or 0".
C6_ReadmeExample ==
  (last.val = Num(-30) /\ last.descriptor = StringOrPositiveInteger) =>
    /\ last.op = "assert" => ~last.res
    /\ last.op = "assertAndThrow" =>
         /\ last.threw
         /\ last.expected = "positive integer OR string"
         /\ last.is = "a negative number or 0"

\* the descriptor ([divisibleBy5, greaterThan25])
DivisibleBy5AndGreaterThan25 == <<All(<<"divisibleBy5", "greaterThan25">>)>>

\* an AND-group, alone in its descriptor, whose conditions have one shared
\* condition as their only prerequisite
SharesPrerequisite(descriptor) ==
  /\ Len(descriptor) = 1
  /\ descriptor[1].isArray
  /\ Len(descriptor[1].list) > 0
  /\ \A k \in 1..Len(descriptor[1].list) :
       LET c == conds[descriptor[1].list[k]].conditions
       IN /\ c.defined
          /\ Len(c.descriptor) = 1
          /\ ~c.descriptor[1].isArray
          /\ c = conds[descriptor[1].list[1]].conditions

\* C7: with divisibleBy5 and greaterThan25 sharing the prerequisite
\* Cond.number, 30 asserts, 25 is blamed on greaterThan25 and 26 on
\* divisibleBy5; in an AND-group whose shared prerequisite passes, the
\* condition blamed is the first one whose own predicate fails.
C7_SharedPrerequisite ==
  /\ (last.op = "assert" /\ last.descriptor = DivisibleBy5AndGreaterThan25) =>
       /\ last.val = Num(300) => last.res
       /\ last.val \in {Num(250), Num(260)} => ~last.res
  /\ (last.op = "getMessageIs" /\ last.descriptor = DivisibleBy5AndGreaterThan25) =>
       /\ last.val = Num(250) => last.text = "a number less than or equal to 25"
       /\ last.val = Num(260) => last.text = "a number not divisible by 5"
  /\ ( /\ last.op = "assertFind"
       /\ SharesPrerequisite(last.descriptor)
       /\ assert(last.val, conds[last.descriptor[1].list[1]].conditions.descriptor, 0).res ) =>
       LET condList == last.descriptor[1].list
           failed == { k \in 1..Len(condList) : ~Predicate(conds[condList[k]], last.val) }
       IN failed # {} =>
            last.failing = Some(condList[CHOOSE k \in failed : \A m \in failed : k <= m])

\* 25 is blamed on greaterThan25, the second of the two siblings
C7_Witness ==
  /\ last.op = "getMessageIs"
  /\ last.descriptor = DivisibleBy5AndGreaterThan25
  /\ last.val = Num(250)
  /\ last.text = "a number less than or equal to 25"

\* C8: the failure an alternative reports is the failure of the earliest
\* failing condition of its AND-group; the later conditions of the group
\* are visited and evaluated all the same, and do not replace it.
C8_FirstFailureKept ==
  (last.op \in Searches /\ ~assert(last.val, last.descriptor, 0).res) =>
    LET t == last.search
    IN /\ \A a \in 1..Len(t) :
            t[a].ev = "alternative" =>
              LET failed == { k \in 1..a : InAlternative(t, k, a) /\ t[k].fail.defined }
              IN IF failed = {} THEN ~t[a].fail.defined
                 ELSE t[a].fail = t[CHOOSE k \in failed : \A m \in failed : k <= m].fail
       /\ \A i \in 1..Len(last.descriptor) :
            LET condList == resolveConditionList(last.descriptor[i])
            IN \A k \in 1..Len(condList) :
                 /\ Includes(last.visited, condList[k])
                 /\ \E e \in 1..Len(t) :
                      t[e].ev = "result" /\ t[e].cond = condList[k]
       /\ ( /\ last.op = "getMessageIs"
            /\ last.val = Num(-60)
            /\ last.descriptor = <<All(<<"positive", "divisibleBy5", "greaterThan25">>)>> )
            => last.text = "a negative number or 0"
       /\ ( /\ last.op = "getMessageIs"
            /\ last.val = Num(-60)
            /\ last.descriptor = <<All(<<"divisibleBy5", "divisibleBy5", "greaterThan25">>)>> )
            => last.text = "a number not divisible by 5"

\* two conditions of one group failed with different failures, and the
\* first one is what the call returned
C8_Witness ==
  /\ last.op = "assertFind"
  /\ Len(last.descriptor) = 1
  /\ \E i, k, a \in 1..Len(last.search) :
       /\ i < k
       /\ InAlternative(last.search, i, a)
       /\ InAlternative(last.search, k, a)
       /\ last.search[a].ev = "alternative"
       /\ last.search[a].depth = 0
       /\ last.search[i].fail.defined
       /\ last.search[k].fail.defined
       /\ last.search[i].fail # last.search[k].fail
       /\ last.failing = last.search[i].fail

\* C9: assert with no alternative is false; assert with an alternative that
\* is the empty AND-group is true.
C9_EmptyDescriptorAndGroup ==
  last.op = "assert" =>
    /\ last.descriptor = <<>> => ~last.res
    /\ (\E i \in 1..Len(last.descriptor) : last.descriptor[i] = All(<<>>)) => last.res

\* assert(v, []) returned true
C9_Witness ==
  /\ last.op = "assert"
  /\ last.descriptor = <<All(<<>>)>>
  /\ last.res

\* the call of a method by its name
CallIn(h, op, val, descriptor) ==
  CASE op = "assert" -> CallAssertIn(h, val, descriptor)
    [] op = "assertFind" -> CallAssertFindIn(h, val, descriptor)
    [] op = "getMessageIs" -> CallGetMessageIsIn(h, val, descriptor)
    [] op = "getMessageExpected" -> CallGetMessageExpectedIn(h, val, descriptor)
    [] op = "mergeDescriptorMessages" -> CallMergeDescriptorMessagesIn(h, val, descriptor)
    [] op = "assertAndThrow" -> CallAssertAndThrowIn(h, val, descriptor)

\* the record of a call that returns what the methods on values define
\* for the value and the descriptor
ReturnsFor(op, val, descriptor) ==
  Only({ [r EXCEPT !.op = op, !.val = val, !.descriptor = descriptor,
                   !.arguments = descriptor] :
         r \in { CASE op = "assert" ->
                        [NoCall EXCEPT !.res = assert(val, descriptor, 0).res]
                   [] op = "assertFind" ->
                        Only({ [NoCall EXCEPT !.failing = a.failing, !.start = a.start,
                                              !.visited = a.visited] :
                               a \in {assertFind(val, descriptor)} })
                   [] op = "getMessageIs" ->
                        Only({ [NoCall EXCEPT !.text = a.text, !.start = a.start,
                                              !.visited = a.visited] :
                               a \in {getMessageIs(val, descriptor)} })
                   [] op = "getMessageExpected" ->
                        [NoCall EXCEPT !.text = getMessageExpected(descriptor)]
                   [] op = "mergeDescriptorMessages" ->
                        [NoCall EXCEPT !.fragments = mergeDescriptorMessages(descriptor)]
                   [] op = "assertAndThrow" ->
                        Only({ [NoCall EXCEPT !.res = a.res, !.threw = a.threw,
                                              !.expected = a.error.expected,
                                              !.is = a.error.is,
                                              !.message = a.error.message,
                                              !.start = a.start,
                                              !.visited = a.visited] :
                               a \in {assertAndThrow(val, descriptor)} }) } })

\* C10: whatever calls came before it on the heap of the program, a call
\* of assert, assertFind, getMessageIs or getMessageExpected (and of
\* mergeDescriptorMessages and assertAndThrow) returns what the same call
\* returns as the first call of the program, on the heap as the program
\* built it: the same boolean, the same condition, the same strings and
\* the same visited conditions; the array of visited conditions is empty
\* when the search of a call gets it; and the call returns what the
\* methods define for the value and the descriptor.
C10_NoHiddenState ==
  last.op # "none" =>
    /\ [last EXCEPT !.revisited = FALSE]
         = CallIn(Built(conds), last.op, last.val, last.descriptor).call
    /\ last.start = <<>>
    /\ [last EXCEPT !.revisited = FALSE]
         = ReturnsFor(last.op, last.val, last.descriptor)

\* an assertFind that followed another call found a failing condition, and
\* its search visited a condition that the search of the call before it
\* had visited as well
C10_Witness ==
  /\ calls >= 2
  /\ last.op = "assertFind"
  /\ last.failing.defined
  /\ Len(last.visited) >= 2
  /\ last.revisited

\* the conditions a descriptor mentions
Mentioned(descriptor) ==
  UNION { { resolveConditionList(descriptor[i])[k] :
              k \in 1..Len(resolveConditionList(descriptor[i])) } :
          i \in 1..Len(descriptor) }

\* the conditions reachable from a set of conditions through the fields
\* conditions
RECURSIVE Closure(_)
Closure(set) ==
  LET next == set \cup UNION { Mentioned(conds[c].conditions.descriptor) : c \in set }
  IN IF next = set THEN set ELSE Closure(next)

Reachable(descriptor) == Closure(Mentioned(descriptor))

\* C11: getDescriptorPassCount counts every condition once in a call: the
\* result is the number of distinct conditions reachable from the
\* descriptor whose own predicate holds on the value.
C11_CountedOnce ==
  last.op = "getDescriptorPassCount" =>
    last.count = Cardinality({ c \in Reachable(last.descriptor) :
                                 Predicate(conds[c], last.val) })

\* Cond.number, reachable from both divisibleBy5 and greaterThan25, counted
\* once for 30 (the three predicates hold)
C11_Witness ==
  /\ last.op = "getDescriptorPassCount"
  /\ last.descriptor = <<All(<<"divisibleBy5", "greaterThan25">>)>>
  /\ last.val = Num(300)
  /\ last.count = 3

\* C12: on a condition graph with a cycle, a top-level assertFind, and so
\* getMessageIs, comes to an end: no call ends with the stack used up.
C12_CyclicTerminates ==
  last.op \in {"assertFind", "getMessageIs"} => ~last.overflow

\* C13: the list mergeDescriptorMessages returns holds no two fragments
\* that are structurally equal; a descriptor that is one alternative written
\* twice gives what the alternative written once gives.
C13_NoEqualFragments ==
  last.op = "mergeDescriptorMessages" =>
    /\ \A i \in 1..Len(last.fragments) : \A j \in (i + 1)..Len(last.fragments) :
         ~( /\ last.fragments[i].before = last.fragments[j].before
            /\ last.fragments[i].after = last.fragments[j].after
            /\ last.fragments[i].type = last.fragments[j].type )
    /\ (Len(last.descriptor) = 2 /\ last.descriptor[1] = last.descriptor[2]) =>
         last.fragments = mergeDescriptorMessages(<<last.descriptor[1]>>)

\* an alternative that describes a type was written twice and gave one
\* fragment
C13_Witness ==
  /\ last.op = "mergeDescriptorMessages"
  /\ Len(last.descriptor) = 2
  /\ last.descriptor[1] = last.descriptor[2]
  /\ Len(messageListOf(last.descriptor)) = 2
  /\ Len(last.fragments) = 1
  /\ Truthy(last.fragments[1].type)

\* a list without the entries that equal an earlier entry
RECURSIVE FirstOccurrences(_)
FirstOccurrences(list) ==
  IF list = <<>> THEN <<>>
  ELSE LET init == FirstOccurrences(SubSeq(list, 1, Len(list) - 1))
       IN IF \E k \in 1..Len(init) : init[k] = list[Len(list)]
          THEN init ELSE Append(init, list[Len(list)])

\* a list without the entries that equal a later entry
RECURSIVE LastOccurrences(_)
LastOccurrences(list) ==
  IF list = <<>> THEN <<>>
  ELSE LET tail == LastOccurrences(Tail(list))
       IN IF \E k \in 1..Len(tail) : tail[k] = Head(list)
          THEN tail ELSE <<Head(list)>> \o tail

\* C14, as the code has it: the output is the list of the produced
\* fragments, in the order produced, without every fragment that equals a
\* later one (for A, B, A the output is B, A).
C14_KeepsLastOccurrence ==
  last.op = "mergeDescriptorMessages" =>
    last.fragments = LastOccurrences(messageListOf(last.descriptor))

\* fragments A, B, A were produced and B, A came out
C14_Witness ==
  /\ last.op = "mergeDescriptorMessages"
  /\ Len(messageListOf(last.descriptor)) = 3
  /\ messageListOf(last.descriptor)[1] = messageListOf(last.descriptor)[3]
  /\ messageListOf(last.descriptor)[1] # messageListOf(last.descriptor)[2]
  /\ last.fragments = SubSeq(messageListOf(last.descriptor), 2, 3)

\* C14, as claimed: the output is the list of the produced fragments without
\* every fragment that equals an earlier one (for A, B, A the output is A, B).
C14_KeepsFirstOccurrence ==
  last.op = "mergeDescriptorMessages" =>
    last.fragments = FirstOccurrences(messageListOf(last.descriptor))

\* the types the conditions of an AND-group declare themselves, in order
DeclaredTypes(condList) ==
  LET T[i \in 0..Len(condList)] ==
        IF i = 0 THEN <<>>
        ELSE IF Truthy(conds[condList[i]].shouldBe.type)
        THEN Append(T[i - 1], conds[condList[i]].shouldBe.type)
        ELSE T[i - 1]
  IN T[Len(condList)]

\* C15: when a condition of an AND-group declares a type, every fragment of
\* the alternative carries the type of the first such condition, whether the
\* prerequisites give one fragment or several.
C15_TypeWrittenOnce ==
  ( /\ last.op = "mergeDescriptorMessages"
    /\ Len(last.descriptor) = 1
    /\ DeclaredTypes(resolveConditionList(last.descriptor[1])) # <<>> ) =>
    \A i \in 1..Len(last.fragments) :
      last.fragments[i].type = DeclaredTypes(resolveConditionList(last.descriptor[1]))[1]

\* the name of the same condition written without the conditions field
Bare(name) ==
  CASE name = "ok" -> "okBare"
    [] name = "nok" -> "nokBare"
    [] OTHER -> name

\* a descriptor with every condition that has conditions: [] exchanged for
\* the same condition without the field
BareDescriptor(descriptor) ==
  [ i \in 1..Len(descriptor) |->
      IF descriptor[i].isArray
      THEN All([ k \in 1..Len(descriptor[i].list) |-> Bare(descriptor[i].list[k]) ])
      ELSE One(Bare(descriptor[i].cond)) ]

\* the descriptor of the last call has a condition with conditions: []
HasEmptyConditions ==
  /\ "okBare" \in DOMAIN conds
  /\ \E i \in 1..Len(last.descriptor) :
       \E k \in 1..Len(resolveConditionList(last.descriptor[i])) :
         resolveConditionList(last.descriptor[i])[k] \in {"ok", "nok"}

\* C16: assert, assertFind and mergeDescriptorMessages give, for a
\* descriptor whose conditions have conditions: [], what they give for the
\* descriptor of the same conditions without the field.
C16_EmptyConditionsIsNoField ==
  HasEmptyConditions =>
    /\ last.op = "assert" =>
         last.res = assert(last.val, BareDescriptor(last.descriptor), 0).res
    /\ last.op = "assertFind" =>
         ( /\ last.failing.defined =
                assertFind(last.val, BareDescriptor(last.descriptor)).failing.defined
           /\ last.failing.defined =>
                Bare(last.failing.str) =
                  assertFind(last.val, BareDescriptor(last.descriptor)).failing.str )
    /\ last.op = "mergeDescriptorMessages" =>
         last.fragments = mergeDescriptorMessages(BareDescriptor(last.descriptor))

\* C17: getMessageIs returns "" when assertFind finds no condition;
\* otherwise the is field of the found condition when that is a string, and
\* when it is a function what the function makes of the type of the value
\* and of the article of that type.
C17_GetMessageIs ==
  last.op = "getMessageIs" =>
    IF ~assertFind(last.val, last.descriptor).failing.defined
    THEN last.text = ""
    ELSE \E cond \in {conds[assertFind(last.val, last.descriptor).failing.str]} :
           /\ ~cond.is.isFunction => last.text = cond.is.body
           /\ (cond.is.isFunction /\ cond.is.body = "type") =>
                last.text = getType(last.val)
           /\ (cond.is.isFunction /\ cond.is.body = "article empty type") =>
                last.text = getArticle(getType(last.val)) \o " empty "
                              \o getType(last.val)

\* getMessageIs([], Cond.nonempty) gave "an empty array"
C17_Witness ==
  /\ last.op = "getMessageIs"
  /\ last.val = EmptyArray
  /\ last.descriptor = <<One("nonempty")>>
  /\ last.text = "an empty array"

\* the items of a list that start, or do not start, with "that", in order
Those(list, that) ==
  LET F[i \in 0..Len(list)] ==
        IF i = 0 THEN <<>>
        ELSE IF startsWith(list[i], "that") = that THEN Append(F[i - 1], list[i])
        ELSE F[i - 1]
  IN F[Len(list)]

\* the orders a list can be put in
Orders(list) ==
  { [i \in 1..Len(list) |-> list[p[i]]] :
      p \in { q \in [1..Len(list) -> 1..Len(list)] :
               \A i, j \in 1..Len(list) : q[i] = q[j] => i = j } }

\* "that" items with every one but the first rewritten to start with "and"
Rewritten(thats) ==
  [ i \in 1..Len(thats) |->
      IF i = 1 THEN thats[i] ELSE "and" \o SubSeq(thats[i], 5, Len(thats[i])) ]

\* before items joined by ", " and a space, the type or "<unknown>", then a
\* space and the after items joined by spaces, the items not starting with
\* "that" before those that do, in some order of each kind
RenderedAs(text, partial) ==
  \E others \in Orders(Those(partial.after, FALSE)),
     thats \in Orders(Those(partial.after, TRUE)) :
    text = (IF partial.before = <<>> THEN "" ELSE join(partial.before, ", ") \o " ")
           \o (IF partial.type.defined THEN partial.type.str ELSE "<unknown>")
           \o (IF partial.after = <<>> THEN ""
               ELSE " " \o join(others \o Rewritten(thats), " "))

\* the fragment of the example
PositiveInteger ==
  [before |-> <<"positive">>, type |-> Some("integer"),
   after |-> <<"that is divisible by 5", "that is greater than 25">>]

\* C18: compilePartialMessage renders the before items, the type and the
\* after items with the items not starting with "that" first and every
\* "that" but the first rewritten to "and"; for the fragment of the example
\* the text is "positive integer that is divisible by 5 and is greater
\* than 25".
C18_CompilePartialMessage ==
  last.op = "compilePartialMessage" =>
    /\ RenderedAs(last.text, last.partial)
    /\ last.partial = PositiveInteger =>
         last.text = "positive integer that is divisible by 5 and is greater than 25"

\* the number of conditions of an alternative, its own and those of their
\* prerequisites recursively, whose predicate holds on the value
Passing(val, condList) ==
  Cardinality({ c \in Reachable(<<condList>>) : Predicate(conds[c], val) })

\* the first failure of an alternative taken alone
FirstFailure(val, condList) ==
  getMostRelevantFailingCondition(val, <<condList>>).failing

\* C19: when the value fails, assertFind returns the first failure of an
\* alternative whose number of passing conditions is the largest among the
\* alternatives of the descriptor.
C19_ClosestAlternative ==
  (last.op = "assertFind" /\ last.descriptor # <<>>
     /\ ~Satisfies(last.val, last.descriptor)) =>
    \E i \in 1..Len(last.descriptor) :
      /\ \A j \in 1..Len(last.descriptor) :
           Passing(last.val, last.descriptor[j]) <= Passing(last.val, last.descriptor[i])
      /\ FirstFailure(last.val, last.descriptor[i]).defined
      /\ last.failing = FirstFailure(last.val, last.descriptor[i])

\* the prerequisites of a condition are absent, empty or satisfied
Ungated(name, val) ==
  Gated(name) => Satisfies(val, conds[name].conditions.descriptor)

\* C20: in the search, a condition whose prerequisites are absent or
\* satisfied by the value has its own predicate consulted and reports no
\* failure when the predicate holds and itself when it fails; the condition
\* assertFind returns is not inside the satisfied prerequisites of a
\* condition the search visited.
C20_NoChildFailureWhenSatisfied ==
  last.op \in Searches =>
    \A k \in 1..Len(last.search) :
      (last.search[k].ev = "result" /\ Ungated(last.search[k].cond, last.val)) =>
        /\ k > 1
        /\ last.search[k - 1].ev = "own"
        /\ last.search[k - 1].cond = last.search[k].cond
        /\ last.search[k].fail =
             (IF Predicate(conds[last.search[k].cond], last.val)
              THEN None ELSE Some(last.search[k].cond))
        /\ ~( /\ Gated(last.search[k].cond)
              /\ last.failing.defined
              /\ last.failing.str \in
                   Reachable(conds[last.search[k].cond].conditions.descriptor) )

\* C21: the condition assertFind returns has its own prerequisites
\* satisfied by the value (or has none): a condition whose prerequisites
\* fail is never blamed itself.
C21_BlamedHasPrerequisites ==
  (last.op = "assertFind" /\ last.failing.defined) =>
    Ungated(last.failing.str, last.val)

\* the events of a search trace that end an alternative of the top-level
\* descriptor; fail is its first failure, count its total score
TopAlternatives(t) == { k \in 1..Len(t) : t[k].ev = "alternative" /\ t[k].depth = 0 }

\* the earliest of the top-level alternatives with the greatest total score
EarliestBest(t) ==
  CHOOSE k \in TopAlternatives(t) :
    /\ \A j \in TopAlternatives(t) : t[j].count <= t[k].count
    /\ \A j \in TopAlternatives(t) : t[j].count = t[k].count => k <= j

\* C22: the candidate is replaced only by a strictly greater total score:
\* assertFind returns the first failure of the earliest of the alternatives
\* with the greatest total score.
C22_EarliestBestAlternative ==
  (last.op = "assertFind" /\ TopAlternatives(last.search) # {}) =>
    last.failing = last.search[EarliestBest(last.search)].fail

\* an alternative that is one condition without prerequisites
Shallow(condList) ==
  /\ Len(resolveConditionList(condList)) = 1
  /\ ~Gated(resolveConditionList(condList)[1])

\* C23: when no condition reachable from the descriptor passes on the value
\* and some alternative is a single condition without prerequisites,
\* assertFind returns a condition the descriptor mentions itself, not one
\* nested in the prerequisites of another.
C23_ShallowPreferred ==
  ( /\ last.op = "assertFind"
    /\ ~Satisfies(last.val, last.descriptor)
    /\ \A c \in Reachable(last.descriptor) : ~Predicate(conds[c], last.val)
    /\ \E i \in 1..Len(last.descriptor) : Shallow(last.descriptor[i]) ) =>
    /\ last.failing.defined
    /\ last.failing.str \in Mentioned(last.descriptor)

\* the fragments the prerequisites of a condition resolve to
Resolved(name) == mergeDescriptorMessagesHelper(conds[name].conditions)

\* the texts (field "before" or "after") the conditions of a group declare
\* themselves, in group order
OwnItems(condList, field) ==
  LET F[i \in 0..Len(condList)] ==
        IF i = 0 THEN <<>>
        ELSE IF Truthy(conds[condList[i]].shouldBe[field])
        THEN Append(F[i - 1], conds[condList[i]].shouldBe[field].str)
        ELSE F[i - 1]
  IN F[Len(condList)]

\* the texts the prerequisites of the conditions of a group contribute when
\* they resolve to one fragment, in group order
DeepItems(condList, field) ==
  LET F[i \in 0..Len(condList)] ==
        IF i = 0 THEN <<>>
        ELSE IF Len(Resolved(condList[i])) = 1
        THEN F[i - 1] \o Resolved(condList[i])[1][field]
        ELSE F[i - 1]
  IN F[Len(condList)]

\* no condition of the group has prerequisites that resolve to several
\* fragments
Unbranched(condList) ==
  \A i \in 1..Len(condList) : Len(Resolved(condList[i])) <= 1

\* C24, as claimed: an alternative whose conditions' prerequisites resolve
\* to at most one fragment each gives exactly one fragment, with the own
\* before (after) items of the group in group order followed by those of
\* the prerequisites in group order.
C24_ShallowBeforeDeep ==
  ( /\ last.op = "mergeDescriptorMessages"
    /\ Len(last.descriptor) = 1
    /\ Unbranched(resolveConditionList(last.descriptor[1])) ) =>
    /\ Len(last.fragments) = 1
    /\ \A field \in {"before", "after"} :
         last.fragments[1][field] =
           OwnItems(resolveConditionList(last.descriptor[1]), field)
             \o DeepItems(resolveConditionList(last.descriptor[1]), field)

\* C24, as the code has it: the same for an alternative that is not the
\* empty group; the empty group gives no fragment.
C24_ShallowBeforeDeepNonEmpty ==
  ( /\ last.op = "mergeDescriptorMessages"
    /\ Len(last.descriptor) = 1
    /\ Unbranched(resolveConditionList(last.descriptor[1])) ) =>
    IF resolveConditionList(last.descriptor[1]) = <<>>
    THEN last.fragments = <<>>
    ELSE /\ Len(last.fragments) = 1
         /\ \A field \in {"before", "after"} :
              last.fragments[1][field] =
                OwnItems(resolveConditionList(last.descriptor[1]), field)
                  \o DeepItems(resolveConditionList(last.descriptor[1]), field)

\* a group of two conditions gave one fragment with two own before items
\* followed by a before item of a prerequisite
C24_Witness ==
  /\ last.op = "mergeDescriptorMessages"
  /\ Len(last.descriptor) = 1
  /\ Len(resolveConditionList(last.descriptor[1])) >= 2
  /\ Unbranched(resolveConditionList(last.descriptor[1]))
  /\ Len(OwnItems(resolveConditionList(last.descriptor[1]), "before")) >= 2
  /\ DeepItems(resolveConditionList(last.descriptor[1]), "before") # <<>>
  /\ Len(last.fragments) = 1

\* the first type among the types the conditions of a group declare and
\* then the types of their single-fragment prerequisites
AccumulatedType(condList) ==
  LET own == DeclaredTypes(condList)
      D[i \in 0..Len(condList)] ==
        IF i = 0 THEN <<>>
        ELSE IF Len(Resolved(condList[i])) = 1 /\ Truthy(Resolved(condList[i])[1].type)
        THEN Append(D[i - 1], Resolved(condList[i])[1].type)
        ELSE D[i - 1]
      all == own \o D[Len(condList)]
  IN IF all = <<>> THEN None ELSE all[1]

\* the accumulated fragment of a group: its own items and those of every
\* single-fragment prerequisite of the group
Accumulated(condList) ==
  [before |-> OwnItems(condList, "before") \o DeepItems(condList, "before"),
   type |-> AccumulatedType(condList),
   after |-> OwnItems(condList, "after") \o DeepItems(condList, "after")]

\* a branch with the accumulated fragment merged into it
Expanded(branch, accumulated) ==
  [before |-> branch.before \o accumulated.before,
   type |-> IF Truthy(branch.type) THEN branch.type ELSE accumulated.type,
   after |-> branch.after \o accumulated.after]

\* one entry per branch of every condition whose prerequisites branch
Expansion(condList) ==
  LET F[i \in 0..Len(condList)] ==
        IF i = 0 THEN <<>>
        ELSE IF Len(Resolved(condList[i])) > 1
        THEN F[i - 1] \o [k \in 1..Len(Resolved(condList[i])) |->
                            Expanded(Resolved(condList[i])[k], Accumulated(condList))]
        ELSE F[i - 1]
  IN F[Len(condList)]

\* C25: an alternative with a condition whose prerequisites resolve to
\* several fragments gives, before deduplication, one fragment per branch of
\* each such condition, the branch merged with the accumulated fragment of
\* the group (single-fragment prerequisites of every sibling included), and
\* not the accumulated fragment alone.
C25_OneFragmentPerBranch ==
  ( /\ last.op = "mergeDescriptorMessages"
    /\ Len(last.descriptor) = 1
    /\ ~Unbranched(resolveConditionList(last.descriptor[1])) ) =>
    /\ messageListOf(last.descriptor) = Expansion(resolveConditionList(last.descriptor[1]))
    /\ \A i \in 1..Len(last.fragments) :
         \E k \in 1..Len(Expansion(resolveConditionList(last.descriptor[1]))) :
           last.fragments[i] = Expansion(resolveConditionList(last.descriptor[1]))[k]

\* a branching condition followed by a sibling with a single-fragment
\* prerequisite gave two fragments that both hold the sibling's items
C25_Witness ==
  /\ last.op = "mergeDescriptorMessages"
  /\ last.descriptor = <<All(<<"okEither", "okGated">>)>>
  /\ Len(last.fragments) = 2
  /\ \A i \in 1..2 : \E k \in 1..Len(last.fragments[i].before) :
       last.fragments[i].before[k] = "gated"

\* the alternatives of the top-level descriptor a trace of assert entered
Entered(t) == Cardinality({ j \in 1..Len(t) : t[j].ev = "group" /\ t[j].depth = 0 })

\* the first alternative of a descriptor that holds on the value
FirstSuccess(val, descriptor) ==
  CHOOSE i \in 1..Len(descriptor) :
    /\ Satisfies(val, <<descriptor[i]>>)
    /\ \A j \in 1..(i - 1) : ~Satisfies(val, <<descriptor[j]>>)

\* C26: assert enters the alternatives in order and stops at the first that
\* holds: nothing of a later alternative is evaluated; within an AND-group
\* no own predicate is invoked after a predicate of the group returned false.
C26_AssertShortCircuits ==
  last.op = "assert" =>
    LET t == last.trace
    IN /\ Entered(t) = IF last.res THEN FirstSuccess(last.val, last.descriptor)
                       ELSE Len(last.descriptor)
       /\ \A k \in 1..Len(t) :
            (t[k].ev \in {"own", "pre"} /\ t[k].depth = 0) =>
              \E m \in 1..Len(resolveConditionList(last.descriptor[AlternativeOf(t, k)])) :
                resolveConditionList(last.descriptor[AlternativeOf(t, k)])[m] = t[k].cond
       /\ \A i \in 1..Len(t) : \A k \in (i + 1)..Len(t) :
            ( /\ t[i].ev = "own" /\ t[k].ev = "own"
              /\ ~Predicate(conds[t[i].cond], t[i].val) )
              => ~SameGroup(t, i, k)

\* the first alternative failed, the second held and the third was not
\* entered
C26_Witness ==
  /\ last.op = "assert"
  /\ Len(last.descriptor) = 3
  /\ last.res
  /\ FirstSuccess(last.val, last.descriptor) = 2
  /\ Entered(last.trace) = 2
  /\ \E k \in 1..Len(last.trace) :
       last.trace[k].ev = "own" /\ ~Predicate(conds[last.trace[k].cond], last.val)

\* C27: one top-level search comes to an end with every condition
\* reachable from the descriptor on the visited list exactly once, a result
\* for every visit, and the own predicate of a condition invoked at most
\* once.
C27_VisitedOnce ==
  last.op = "getMostRelevantFailingCondition" =>
    /\ \A i \in 1..Len(last.visited) : \A j \in (i + 1)..Len(last.visited) :
         last.visited[i] # last.visited[j]
    /\ { last.visited[i] : i \in 1..Len(last.visited) } = Reachable(last.descriptor)
    /\ \A c \in Reachable(last.descriptor) :
         /\ Cardinality({ k \in 1..Len(last.search) :
                            last.search[k].ev = "result" /\ last.search[k].cond = c }) = 1
         /\ Cardinality({ k \in 1..Len(last.search) :
                            last.search[k].ev = "own" /\ last.search[k].cond = c }) <= 1

\* a search that started at two conditions that are each other's
\* prerequisite visited both once
C27_Witness ==
  /\ last.op = "getMostRelevantFailingCondition"
  /\ last.descriptor = <<One("ping"), One("pong")>>
  /\ last.visited = <<"ping", "pong">>
  /\ Cardinality({ k \in 1..Len(last.search) : last.search[k].ev = "result" }) = 2

\* C28: a condition assertFind returns is reachable from the descriptor and
\* its own predicate is false on the value.
C28_BlamedIsReachableAndFails ==
  (last.op = "assertFind" /\ last.failing.defined) =>
    /\ last.failing.str \in Reachable(last.descriptor)
    /\ ~Predicate(conds[last.failing.str], last.val)

\* assertFind returned a condition that is not mentioned by the descriptor
\* but reached through a conditions field
C28_Witness ==
  /\ last.op = "assertFind"
  /\ last.failing.defined
  /\ last.failing.str \notin Mentioned(last.descriptor)
  /\ last.failing.str \in Reachable(last.descriptor)
  /\ ~Predicate(conds[last.failing.str], last.val)

\* a list with the items at k and k + 1 exchanged
Exchanged(list, k) ==
  [ i \in 1..Len(list) |->
      IF i = k THEN list[k + 1] ELSE IF i = k + 1 THEN list[k] ELSE list[i] ]

\* the descriptors a descriptor becomes when two neighbouring alternatives
\* are exchanged, when two neighbouring conditions of one of its AND-groups
\* are, when a condition is written as the array of itself, or the reverse.
\* Every order of a list is reached by exchanges of neighbours, and the
\* descriptors of a call site hold every order of each of them, so what
\* does not change in one exchange does not change in any reordering.
Reshapings(descriptor) ==
  { Exchanged(descriptor, k) : k \in 1..(Len(descriptor) - 1) }
  \cup UNION { { [descriptor EXCEPT ![i] = All(Exchanged(descriptor[i].list, k))] :
                   k \in 1..(Len(resolveConditionList(descriptor[i])) - 1) } :
               i \in 1..Len(descriptor) }
  \cup { [descriptor EXCEPT ![i] = All(<<descriptor[i].cond>>)] :
           i \in { j \in 1..Len(descriptor) : ~descriptor[j].isArray } }
  \cup { [descriptor EXCEPT ![i] = One(descriptor[i].list[1])] :
           i \in { j \in 1..Len(descriptor) :
                     descriptor[j].isArray /\ Len(descriptor[j].list) = 1 } }

\* a descriptor with Cond.nonempty exchanged for the condition whose
\* prerequisites are written in the other order
Reversed(descriptor) ==
  [ i \in 1..Len(descriptor) |->
      IF descriptor[i].isArray
      THEN All([ k \in 1..Len(descriptor[i].list) |->
                   IF descriptor[i].list[k] = "nonempty" THEN "nonemptyReversed"
                   ELSE descriptor[i].list[k] ])
      ELSE One(IF descriptor[i].cond = "nonempty" THEN "nonemptyReversed"
               ELSE descriptor[i].cond) ]

\* C29: what assert returns does not change when the alternatives are put
\* in another order, when the conditions of an AND-group are, at the top or
\* in the prerequisites of a condition, or when a condition is written as a
\* one-element AND-group.
C29_ShapeAndOrder ==
  last.op = "assert" =>
    /\ \A reshaped \in Reshapings(last.descriptor) :
         assert(last.val, reshaped, 0).res = last.res
    /\ "nonemptyReversed" \in DOMAIN conds =>
         assert(last.val, Reversed(last.descriptor), 0).res = last.res

\* a call whose first alternative, a group of two different conditions,
\* fails and whose second alternative holds
C29_Witness ==
  /\ last.op = "assert"
  /\ Len(last.descriptor) = 2
  /\ last.descriptor[1].isArray
  /\ Len(last.descriptor[1].list) = 2
  /\ last.descriptor[1].list[1] # last.descriptor[1].list[2]
  /\ ~Satisfies(last.val, <<last.descriptor[1]>>)
  /\ Satisfies(last.val, <<last.descriptor[2]>>)
  /\ last.res

\* C30: a call leaves every object that was there before it as it was:
\* every Condition (its conditions, shouldBe and is fields), every array
\* of a conditions field and every shouldBe; and the descriptor of the
\* caller, with its AND-group arrays, reads after the call as the caller
\* wrote it.
C30_InputsUnchanged ==
  [][heap' = heap /\ last'.arguments = last'.descriptor]_vars

\* a mergeDescriptorMessages that followed another call was handed an
\* AND-group of two conditions, one of them with prerequisites, and
\* returned a fragment into which the shouldBe of both were merged
C30_Witness ==
  /\ calls >= 2
  /\ last.op = "mergeDescriptorMessages"
  /\ \E i \in 1..Len(last.descriptor) :
       /\ last.descriptor[i].isArray
       /\ Len(last.descriptor[i].list) = 2
       /\ last.descriptor[i].list[1] # last.descriptor[i].list[2]
       /\ \E k \in 1..2 : conds[last.descriptor[i].list[k]].conditions.defined
  /\ \E m \in 1..Len(last.fragments) :
       Len(last.fragments[m].before) + Len(last.fragments[m].after) >= 2
  /\ last.arguments = last.descriptor
  /\ heap = Built(conds)
====
